---- MODULE Spec2Model ----
(***************************************************************************)
(* Verification model of xray_core's project layer (project.rs) and of     *)
(* the Register of its repository layer (repository.rs):                   *)
(*   - LocalProject: the weak buffer registry, the buffer-id counter and   *)
(*     the open_path / open_buffer futures (specification Spec);           *)
(*   - PathSearch: the two-phase cancellable path search                   *)
(*     (specifications SpecSearch and, with fairness, SpecSearchFair);     *)
(*   - RemoteProject::search_paths beside the local search                 *)
(*     (specification SpecReplication);                                    *)
(*   - ProjectService and RemoteProject: init, the OpenPath and OpenBuffer *)
(*     requests and their responses (specification SpecService);           *)
(*   - Register: set and value over the ordered set of entries             *)
(*     (specification SpecRegister).                                       *)
(***************************************************************************)
EXTENDS Integers, Sequences, FiniteSets, TLC

(***************************************************************************)
(* Bounds of the exploration.                                              *)
(***************************************************************************)
\* futures in flight plus buffer handles held at the same time
MaxTasks == 2
\* buffers created in one behaviour (a read that would create one more
\* stays pending)
MaxBuffers == 2
\* buffer sub-services registered on the connection in one behaviour (a
\* request that could register one more is not sent)
MaxBufferServices == 2
\* replicas that issue operations on a register, and the greatest local
\* and lamport timestamp an operation carries
MaxReplicas == 2
MaxLocalTimestamp == 2
MaxLamportTimestamp == 2
\* set calls made on one register
MaxOperations == 3

(***************************************************************************)
(* State of the LocalProject and of its callers.                           *)
(*   heap            every Rc<RefCell<Buffer>> allocated so far, with its  *)
(*                   strong count (0: the buffer has been dropped)         *)
(*   buffers         BufferWeakSet.buffers: (BufferId, Weak) pairs         *)
(*   next_buffer_id  LocalProject.next_buffer_id                           *)
(*   disk            the file provider's contents per file identity        *)
(*   tasks           the open_path futures in flight and the strong        *)
(*                   references handed to callers                          *)
(*   outcome         how the last step resolved a call, if it resolved one *)
(***************************************************************************)
VARIABLES heap, buffers, next_buffer_id, disk, tasks, outcome

projectVars == <<heap, buffers, next_buffer_id, disk, tasks, outcome>>

(***************************************************************************)
(* State of a path search (PathSearch, its status cell and the locals of   *)
(* the poll that is running).                                              *)
(*   project   the trees the LocalProject was built with                   *)
(*   search    PathSearch: repo_ids, roots, needle, max_results,           *)
(*             include_ignored                                             *)
(*   stack     PathSearch.stack                                            *)
(*   status    the value of the status cell (PathSearchStatus)             *)
(*   observer  the NotifyCellObserver of the status cell is alive          *)
(*   pc        "none" (no search), "created" (not polled yet), "find" and  *)
(*             "rank" (inside poll, in find_matches / rank_matches),       *)
(*             "done" (poll returned Ok), "cancelled" (poll returned Err), *)
(*             "panicked" (poll unwound)                                   *)
(*   polls     the calls of poll so far                                    *)
(*   walk      locals of the running phase: children, child_index,         *)
(*             found_match, steps_since_last_check                         *)
(*   matches   the HashMap<EntryId, MatchMarker> of find_matches           *)
(*   results   the BinaryHeap<PathSearchResult> of rank_matches            *)
(*   matcher, scorer   the segments pushed on fuzzy::Matcher / Scorer      *)
(*   scores    what fuzzy::Scorer has reported (score and positions), per  *)
(*             path scored                                                 *)
(*   observed_at_poll  the observer was alive when the running (or the     *)
(*             last) poll was entered                                      *)
(*   local_search  for the search of a remote project: what the search of  *)
(*             the local project it mirrors has published                  *)
(***************************************************************************)
VARIABLES project, search, stack, status, observer, pc, polls, walk,
          matches, results, matcher, scorer, scores, observed_at_poll,
          local_search

searchVars == <<project, search, stack, status, observer, pc, polls, walk,
                matches, results, matcher, scorer, scores, observed_at_poll,
                local_search>>

(***************************************************************************)
(* State of the project service, of its connection and of the remote       *)
(* project behind it.                                                      *)
(*   services        the sub-services registered on the connection, in     *)
(*                   registration order: the service id of each is its     *)
(*                   index                                                 *)
(*   rpc_state       the RpcState init has emitted: repo id -> service id  *)
(*   remote_repos    RemoteProject.repos: repo id -> the service taken     *)
(*   calls           the requests of the remote project, per slot of       *)
(*                   tasks: the request, its response in flight, and what  *)
(*                   became of the buffer service                          *)
(*   remote_buffers  the service ids a remote buffer has been built on     *)
(***************************************************************************)
VARIABLES services, rpc_state, remote_repos, calls, remote_buffers

serviceVars == <<services, rpc_state, remote_repos, calls, remote_buffers>>

(***************************************************************************)
(* State of two copies of one Register (repository.rs), which are handed   *)
(* the same operations, each in an order of its own.                       *)
(*   operations  the set(id, lamport_timestamp, value) calls there are     *)
(*   register_entries  Register.entries of each copy: the BTreeSet in      *)
(*               ascending order                                           *)
(*   applied     the calls each copy has been handed so far                *)
(***************************************************************************)
VARIABLES operations, register_entries, applied

registerVars == <<operations, register_entries, applied>>

vars == <<projectVars, searchVars, serviceVars, registerVars>>

(***************************************************************************)
(* The environment of a LocalProject: trees, paths, the file provider.     *)
(***************************************************************************)
\* Option::None of a path or file, and of a buffer reference.
NoPath == <<>>
NoBuffer == 0

\* LocalProject::new: the root of the tree of each repo id 0, 1, ...
TreeRoots(p) == IF p \in {"two", "twins", "shadow"} THEN <<1, 3>> ELSE <<1>>

\* LocalProject::new / add_repo: ids 0, 1, ... given to the trees in order.
repos == 0 .. Len(TreeRoots(project)) - 1

\* The orders in which the project's HashMap may yield its trees.
HashMapOrders ==
  {o \in [1 .. Len(TreeRoots(project)) -> repos] :
     \A i, j \in DOMAIN o : i # j => o[i] # o[j]}

\* The repo ids a caller may pass: the registered ones and an unknown id.
RepoIdInputs == 0 .. Len(TreeRoots(project))

\* Relative paths a caller may pass.
Paths == {"bar", "foo"}

\* Mutation: the repo id is not looked up.
resolve_path_unchecked(repo_id, relative_path) == <<repo_id, relative_path>>

\* resolve_path: the absolute path under the tree's root, None for an
\* unknown repo id.
resolve_path(repo_id, relative_path) ==
  IF repo_id \in repos THEN <<repo_id, relative_path>> ELSE NoPath

\* File::id() of the handle the file provider opens for an absolute path.
FileIdOf(absolute_path) == absolute_path

FileIds == {FileIdOf(<<r, p>>) : r \in repos, p \in Paths}

\* File contents the test file provider is given (write_sync).
Contents == {"abc", "disk"}

\* The files the tests rewrite while the project runs.
WrittenFiles == {FileIdOf(<<0, "bar">>)}

\* What Buffer::edit leaves in the buffers of the tests.
EditedContent == "memory"

\* io::Error values of the file provider, and error::Error::description.
IoErrors == {"NotFound", "PermissionDenied"}

Description(io_error) ==
  IF io_error = "NotFound" THEN "entity not found" ELSE "permission denied"

\* Mutation: the cause's description is lost.
ErrorFromIo_no_message(io_error) == [kind |-> "IoError", msg |-> ""]

\* impl From<io::Error> for Error
ErrorFromIo(io_error) == [kind |-> "IoError", msg |-> Description(io_error)]

\* rpc::Error values of a failing request or take_service.
RpcErrors == {"ConnectionDropped", "ServiceNotFound"}

\* Mutation: the rpc error is reported as an unexpected response.
ErrorFromRpc_unexpected(rpc_error) ==
  [kind |-> "UnexpectedResponse", msg |-> ""]

\* impl From<rpc::Error> for Error
ErrorFromRpc(rpc_error) == [kind |-> "RpcError", msg |-> rpc_error]

TreeNotFound == [kind |-> "TreeNotFound", msg |-> ""]
BufferNotFound == [kind |-> "BufferNotFound", msg |-> ""]
NoError == [kind |-> "", msg |-> ""]

\* PathSearchStatus
Pending == [ready |-> FALSE, list |-> <<>>]

Ready(list) == [ready |-> TRUE, list |-> list]

NoSearch ==
  [repo_ids |-> <<>>, roots |-> <<>>, needle |-> <<>>, max_results |-> 0,
   include_ignored |-> FALSE]

\* The locals of a phase outside the phases.
NoWalk ==
  [children |-> 0, child_index |-> 0, found_match |-> FALSE,
   steps_since_last_check |-> 0]

\* The search at hand is not the search of a remote project.
NoLocalSearch ==
  [mirrored |-> FALSE, repo_ids |-> <<>>, status |-> Pending]

\* No search has been asked for.
SearchIdle ==
  /\ search = NoSearch
  /\ stack = <<>>
  /\ status = Pending
  /\ observer = FALSE
  /\ pc = "none"
  /\ polls = 0
  /\ walk = NoWalk
  /\ matches = <<>>
  /\ results = <<>>
  /\ matcher = <<>>
  /\ scorer = <<>>
  /\ scores = <<>>
  /\ observed_at_poll = FALSE
  /\ local_search = NoLocalSearch

TaskIds == 1 .. MaxTasks

\* No request in the slot.
\* pc: "none", "pending" (the request is sent and not answered yet),
\* "responded" (the response is in flight), "taken" (a remote buffer stands
\* on the buffer service), "untaken" (the buffer service was registered and
\* the remote project failed to take it).
NoCall ==
  [pc |-> "none", call |-> "", buffer_id |-> 0, ok |-> FALSE,
   service_id |-> 0, error |-> [kind |-> "", msg |-> ""]]

\* The two copies of the register.
Copies == 1 .. 2

\* No register is in use.
RegisterIdle ==
  /\ operations = {}
  /\ register_entries = [k \in Copies |-> <<>>]
  /\ applied = [k \in Copies |-> {}]

\* No connection yet: no sub-service, no state, no remote project.
ServiceIdle ==
  /\ services = <<>>
  /\ rpc_state = <<>>
  /\ remote_repos = <<>>
  /\ calls = [t \in TaskIds |-> NoCall]
  /\ remote_buffers = {}

\* pc: "idle" (no future), "open" (suspended at file_provider.open), "read"
\* (suspended at file.read), "ok" (resolved: the caller holds the Rc).
IdleTask ==
  [pc |-> "idle", repo |-> 0, path |-> "", file |-> NoPath, obj |-> NoBuffer]

\* call: the operation; at: the statement that resolved it ("resolve",
\* "open", "read", "lookup" for the failures; "check", "recheck", "created",
\* "lookup" for the successes); arg: the repo id, buffer id or handle.
NoOutcome == [call |-> "", at |-> "", arg |-> 0, error |-> NoError]

Resolved(call, at, arg) ==
  [call |-> call, at |-> at, arg |-> arg, error |-> NoError]

Failed(call, at, arg, error) ==
  [call |-> call, at |-> at, arg |-> arg, error |-> error]

\* Mutation: a weak reference upgrades although the buffer was dropped.
upgrade_dead(obj) == obj

\* Weak::upgrade
upgrade(obj) == IF heap[obj].strong > 0 THEN obj ELSE NoBuffer

\* Mutation: the lookups keep every entry.
retain_all(entries) == entries

\* The retain() of both lookups: entries whose weak reference upgrades.
retain_live(entries) == SelectSeq(entries, LAMBDA e : upgrade(e.obj) # NoBuffer)

\* What the closure of a lookup compares with its target: the entry's
\* BufferId, or the file identity of the entry's buffer.
EntryKey(e, by) == IF by = "buffer_id" THEN e.id ELSE heap[e.obj].file

RECURSIVE last_match(_, _, _, _)
\* The closure of retain assigns found_buffer at every live entry whose key
\* equals the target: the last one stays.
last_match(entries, by, target, found) ==
  IF entries = <<>> THEN found
  ELSE last_match(Tail(entries), by, target,
                  IF /\ upgrade(Head(entries).obj) # NoBuffer
                     /\ EntryKey(Head(entries), by) = target
                  THEN Head(entries).obj ELSE found)

\* Mutation: the lookup does not compare the id.
find_by_buffer_id_any(target_id) ==
  LET live == retain_live(buffers)
  IN IF live = <<>> THEN NoBuffer ELSE live[Len(live)].obj

\* BufferWeakSet::find_by_buffer_id: the buffer found (or None)
find_by_buffer_id(target_id) ==
  last_match(buffers, "buffer_id", target_id, NoBuffer)

\* Mutation: the comparison of the file identity is inverted.
find_by_file_id_inverted(file_id) ==
  LET other == SelectSeq(retain_live(buffers),
                         LAMBDA e : heap[e.obj].file # file_id)
  IN IF other = <<>> THEN NoBuffer ELSE other[Len(other)].obj

\* BufferWeakSet::find_by_file_id: the buffer found (or None)
find_by_file_id(file_id) ==
  last_match(buffers, "file_id", file_id, NoBuffer)

\* Mutations: one of the two registry checks is left out.
first_check_skipped(file_id) == NoBuffer

recheck_skipped(file_id) == NoBuffer

\* The two registry checks of open_path: before the read, and again after it.
first_check(file_id) == find_by_file_id(file_id)

recheck(file_id) == find_by_file_id(file_id)

\* Mutation: the new buffer is not pushed on the registry.
insert_buffers_unregistered(entries, id, obj) == entries

\* BufferWeakSet::insert: a new Rc with one strong reference ...
insert_heap(id, file_id, content) ==
  Append(heap, [id |-> id, file |-> file_id, content |-> content, strong |-> 1])

\* ... and a weak one pushed on the registry.
insert_buffers(entries, id, obj) == Append(entries, [id |-> id, obj |-> obj])

\* Rc::clone / a successful upgrade handed to the caller
AddStrong(obj) == [heap EXCEPT ![obj].strong = @ + 1]

\* Mutation: the counter is not advanced.
CounterNotAdvanced == next_buffer_id

\* drop(Rc): the buffer is freed with its last strong reference.
DropStrong(obj) ==
  [heap EXCEPT ![obj].strong = @ - 1,
               ![obj].content = IF heap[obj].strong = 1 THEN "" ELSE @]

\* The BufferId the second closure of open_path gives a new buffer, and the
\* counter it leaves.
AllocatedBufferId == next_buffer_id
CounterAfterAllocation == next_buffer_id + 1

\* Buffer::new(), edit(&[0..0], content): the text of the new buffer.
InitialText(content) == content

\* LocalProject::new: no buffer yet, the counter at 0.
ProjectInit ==
  /\ heap = <<>>
  /\ buffers = <<>>
  /\ next_buffer_id = 0
  /\ disk = [f \in FileIds |-> IF f \in WrittenFiles THEN "disk" ELSE "abc"]
  /\ tasks = [t \in TaskIds |-> IdleTask]
  /\ outcome = NoOutcome

Init ==
  /\ project = "one"
  /\ ProjectInit
  /\ SearchIdle
  /\ ServiceIdle
  /\ RegisterIdle

\* RpcResponse::OpenedBuffer(result) in flight to the remote project.
OpenedBuffer(call, ok, service_id, error) ==
  [call EXCEPT !.pc = "responded", !.ok = ok, !.service_id = service_id,
               !.error = error]

\* Mutation: a buffer service is registered for a failed open as well.
Then_always_registers(t) ==
  IF calls[t].pc # "pending" \/ tasks'[t].pc = "read"
  THEN UNCHANGED serviceVars
  ELSE /\ services' = Append(services, [kind |-> "buffer", of |-> tasks'[t].obj])
       /\ calls' = [calls EXCEPT ![t] =
            OpenedBuffer(@, TRUE, Len(services) + 1, NoError)]
       /\ UNCHANGED <<rpc_state, remote_repos, remote_buffers>>

\* The `then` closure of ProjectService::request. It runs when the future
\* of the local project that serves the request of slot t resolves: the
\* buffer is wrapped as a sub-service of the connection, whose id is the
\* response, or the error is the response. A future that no request
\* waits for, or that has not resolved, leaves the connection alone.
Then(t) ==
  IF calls[t].pc # "pending" \/ tasks'[t].pc = "read"
  THEN UNCHANGED serviceVars
  ELSE /\ IF tasks'[t].pc = "ok"
          THEN /\ services' = Append(services, [kind |-> "buffer",
                                                of |-> tasks'[t].obj])
               /\ calls' = [calls EXCEPT ![t] =
                    OpenedBuffer(@, TRUE, Len(services) + 1, NoError)]
          ELSE /\ services' = services
               /\ calls' = [calls EXCEPT ![t] =
                    OpenedBuffer(@, FALSE, 0, outcome'.error)]
       /\ UNCHANGED <<rpc_state, remote_repos, remote_buffers>>

\* A caller starts on the lowest free slot.
FreeSlot(t) ==
  /\ tasks[t].pc = "idle"
  /\ \A u \in TaskIds : u < t => tasks[u].pc # "idle"

\* LocalProject::open_path with a registered repo id, up to the future it
\* returns: resolve_path, then the file provider's open is requested.
OpenPath(t, repo_id, relative_path) ==
  /\ FreeSlot(t)
  /\ resolve_path(repo_id, relative_path) # NoPath
  /\ tasks' = [tasks EXCEPT ![t] =
       [IdleTask EXCEPT !.pc = "open", !.repo = repo_id,
                        !.path = relative_path]]
  /\ outcome' = NoOutcome
  /\ UNCHANGED <<heap, buffers, next_buffer_id, disk>>
  /\ UNCHANGED <<searchVars, serviceVars, registerVars>>

\* LocalProject::open_path with an unknown repo id: future::err(TreeNotFound).
OpenPathUnknownRepo(repo_id, relative_path) ==
  /\ resolve_path(repo_id, relative_path) = NoPath
  /\ outcome' = Failed("open_path", "resolve", repo_id, TreeNotFound)
  /\ UNCHANGED <<heap, buffers, next_buffer_id, disk, tasks>>
  /\ UNCHANGED <<searchVars, serviceVars, registerVars>>

\* The file provider's open succeeds: the first and_then closure runs.
FileOpened(t) ==
  /\ tasks[t].pc = "open"
  /\ LET file_id == FileIdOf(resolve_path(tasks[t].repo, tasks[t].path))
         buffer == first_check(file_id)
     IN /\ buffers' = retain_live(buffers)
        /\ IF buffer # NoBuffer
           THEN /\ heap' = AddStrong(buffer)
                /\ tasks' = [tasks EXCEPT ![t].pc = "ok", ![t].file = file_id,
                                          ![t].obj = buffer]
                /\ outcome' = Resolved("open_path", "check", t)
           ELSE /\ heap' = heap
                /\ tasks' = [tasks EXCEPT ![t].pc = "read", ![t].file = file_id]
                /\ outcome' = NoOutcome
  /\ UNCHANGED <<next_buffer_id, disk>>
  /\ UNCHANGED <<searchVars, registerVars>>
  /\ Then(t)

\* The file provider's open fails: map_err turns the io::Error into IoError.
FileOpenFailed(t, io_error) ==
  /\ tasks[t].pc = "open"
  /\ tasks' = [tasks EXCEPT ![t] = IdleTask]
  /\ outcome' = Failed("open_path", "open", 0, ErrorFromIo(io_error))
  /\ UNCHANGED <<heap, buffers, next_buffer_id, disk>>
  /\ UNCHANGED <<searchVars, registerVars>>
  /\ Then(t)

\* Mutation: the content read replaces the text of the buffer found at
\* the re-check.
FileRead_overwrites(t) ==
  /\ tasks[t].pc = "read"
  /\ LET file_id == tasks[t].file
         content == disk[file_id]
         buffer == recheck(file_id)
     IN IF buffer # NoBuffer
        THEN /\ buffers' = retain_live(buffers)
             /\ heap' = [AddStrong(buffer) EXCEPT
                          ![buffer].content = InitialText(content)]
             /\ tasks' = [tasks EXCEPT ![t].pc = "ok", ![t].obj = buffer]
             /\ outcome' = Resolved("open_path", "recheck", t)
             /\ UNCHANGED next_buffer_id
        ELSE /\ Len(heap) < MaxBuffers
             /\ next_buffer_id' = CounterAfterAllocation
             /\ heap' = insert_heap(AllocatedBufferId, file_id,
                                    InitialText(content))
             /\ buffers' = insert_buffers(retain_live(buffers),
                                          AllocatedBufferId, Len(heap) + 1)
             /\ tasks' = [tasks EXCEPT ![t].pc = "ok",
                                       ![t].obj = Len(heap) + 1]
             /\ outcome' = Resolved("open_path", "created", t)
  /\ UNCHANGED disk
  /\ UNCHANGED <<searchVars, registerVars>>
  /\ Then(t)

\* file.read() succeeds: the second and_then closure runs.
FileRead(t) ==
  /\ tasks[t].pc = "read"
  /\ LET file_id == tasks[t].file
         content == disk[file_id]
         buffer == recheck(file_id)
     IN IF buffer # NoBuffer
        THEN /\ buffers' = retain_live(buffers)
             /\ heap' = AddStrong(buffer)
             /\ tasks' = [tasks EXCEPT ![t].pc = "ok", ![t].obj = buffer]
             /\ outcome' = Resolved("open_path", "recheck", t)
             /\ UNCHANGED next_buffer_id
        ELSE /\ Len(heap) < MaxBuffers
             /\ next_buffer_id' = CounterAfterAllocation
             /\ heap' = insert_heap(AllocatedBufferId, file_id,
                                    InitialText(content))
             /\ buffers' = insert_buffers(retain_live(buffers),
                                          AllocatedBufferId, Len(heap) + 1)
             /\ tasks' = [tasks EXCEPT ![t].pc = "ok",
                                       ![t].obj = Len(heap) + 1]
             /\ outcome' = Resolved("open_path", "created", t)
  /\ UNCHANGED disk
  /\ UNCHANGED <<searchVars, registerVars>>
  /\ Then(t)

\* file.read() fails.
FileReadFailed(t, io_error) ==
  /\ tasks[t].pc = "read"
  /\ tasks' = [tasks EXCEPT ![t] = IdleTask]
  /\ outcome' = Failed("open_path", "read", 0, ErrorFromIo(io_error))
  /\ UNCHANGED <<heap, buffers, next_buffer_id, disk>>
  /\ UNCHANGED <<searchVars, registerVars>>
  /\ Then(t)

\* LocalProject::open_buffer: the lookup runs inside the call, and the
\* future it returns is already resolved.
OpenBuffer(t, buffer_id) ==
  /\ LET buffer == find_by_buffer_id(buffer_id)
     IN /\ buffers' = retain_live(buffers)
        /\ IF buffer # NoBuffer
           THEN /\ FreeSlot(t)
                /\ heap' = AddStrong(buffer)
                /\ tasks' = [tasks EXCEPT ![t] =
                     [IdleTask EXCEPT !.pc = "ok", !.obj = buffer,
                                      !.file = heap[buffer].file]]
                /\ outcome' = Resolved("open_buffer", "lookup", t)
           ELSE /\ t = 1
                /\ heap' = heap
                /\ tasks' = tasks
                /\ outcome' = Failed("open_buffer", "lookup", buffer_id, BufferNotFound)
  /\ UNCHANGED <<next_buffer_id, disk>>
  /\ UNCHANGED <<searchVars, serviceVars, registerVars>>

\* A caller drops the strong reference it was given (drop(buffer)).
DropBuffer(t) ==
  /\ tasks[t].pc = "ok"
  /\ heap' = DropStrong(tasks[t].obj)
  /\ tasks' = [tasks EXCEPT ![t] = IdleTask]
  /\ outcome' = NoOutcome
  /\ UNCHANGED <<buffers, next_buffer_id, disk>>
  /\ calls[t].pc # "responded"
  /\ calls' = [calls EXCEPT ![t] = NoCall]
  /\ remote_buffers' = remote_buffers \ {calls[t].service_id}
  /\ UNCHANGED <<services, rpc_state, remote_repos>>
  /\ UNCHANGED <<searchVars, registerVars>>

\* buffer.borrow_mut().edit(..) through one of the handles.
EditBuffer(t) ==
  /\ tasks[t].pc = "ok"
  /\ heap[tasks[t].obj].content # EditedContent
  /\ heap' = [heap EXCEPT ![tasks[t].obj].content = EditedContent]
  /\ outcome' = NoOutcome
  /\ UNCHANGED <<buffers, next_buffer_id, disk, tasks>>
  /\ UNCHANGED <<searchVars, serviceVars, registerVars>>

\* TestFileProvider::write_sync: the file's contents change on disk.
WriteSync(file_id, content) ==
  /\ disk[file_id] # content
  /\ disk' = [disk EXCEPT ![file_id] = content]
  /\ outcome' = NoOutcome
  /\ UNCHANGED <<heap, buffers, next_buffer_id, tasks>>
  /\ UNCHANGED <<searchVars, serviceVars, registerVars>>

Next ==
  \/ \E t \in TaskIds, r \in RepoIdInputs, p \in Paths : OpenPath(t, r, p)
  \/ \E r \in RepoIdInputs, p \in Paths : OpenPathUnknownRepo(r, p)
  \/ \E t \in TaskIds : FileOpened(t)
  \/ \E t \in TaskIds, e \in IoErrors : FileOpenFailed(t, e)
  \/ \E t \in TaskIds : FileRead(t)
  \/ \E t \in TaskIds, e \in IoErrors : FileReadFailed(t, e)
  \/ \E t \in TaskIds, b \in 0 .. next_buffer_id : OpenBuffer(t, b)
  \/ \E t \in TaskIds : DropBuffer(t)
  \/ \E t \in TaskIds : EditBuffer(t)
  \/ \E f \in WrittenFiles, c \in Contents : WriteSync(f, c)

Spec == Init /\ [][Next]_vars

(***************************************************************************)
(* The project service and the remote project.  The service runs beside    *)
(* the local project on one connection; a request of the remote project    *)
(* occupies the slot of tasks its future on the server side runs in.       *)
(***************************************************************************)
\* Mutation: one repository sub-service is registered for all the trees.
ServiceInit_shared(order) ==
  /\ services = <<>>
  /\ rpc_state = <<>>
  /\ services' = <<[kind |-> "repo", of |-> order[1]]>>
  /\ rpc_state' = [r \in repos |-> 1]
  /\ outcome' = NoOutcome
  /\ UNCHANGED <<remote_repos, calls, remote_buffers>>
  /\ UNCHANGED <<heap, buffers, next_buffer_id, disk, tasks>>
  /\ UNCHANGED <<searchVars, registerVars>>

\* ProjectService::init: one repository sub-service per tree, registered
\* in the order the project's HashMap yields the trees; the state maps the
\* repo ids to the service ids.
ServiceInit(order) ==
  /\ services = <<>>
  /\ rpc_state = <<>>
  /\ services' = [i \in DOMAIN order |-> [kind |-> "repo", of |-> order[i]]]
  /\ rpc_state' = [r \in repos |-> CHOOSE i \in DOMAIN order : order[i] = r]
  /\ outcome' = NoOutcome
  /\ UNCHANGED <<remote_repos, calls, remote_buffers>>
  /\ UNCHANGED <<heap, buffers, next_buffer_id, disk, tasks>>
  /\ UNCHANGED <<searchVars, registerVars>>

\* RemoteProject::new: every sub-service of the state is taken and kept as
\* the remote tree of its repo id.
RemoteProjectNew ==
  /\ rpc_state # <<>>
  /\ remote_repos = <<>>
  /\ remote_repos' = [r \in DOMAIN rpc_state |-> rpc_state[r]]
  /\ outcome' = NoOutcome
  /\ UNCHANGED <<services, rpc_state, calls, remote_buffers>>
  /\ UNCHANGED <<heap, buffers, next_buffer_id, disk, tasks>>
  /\ UNCHANGED <<searchVars, registerVars>>

\* The buffer sub-services registered so far and those the requests in
\* flight may still register.
BufferServices ==
  Cardinality({i \in DOMAIN services : services[i].kind = "buffer"})
    + Cardinality({t \in TaskIds : calls[t].pc = "pending"})

\* A request starts on the lowest slot free on both sides.
FreeCall(t) ==
  /\ BufferServices < MaxBufferServices
  /\ tasks[t].pc = "idle"
  /\ calls[t].pc = "none"
  /\ \A u \in TaskIds :
       u < t => ~(tasks[u].pc = "idle" /\ calls[u].pc = "none")

\* RemoteProject::open_path: the OpenPath request is sent.
RemoteOpenPath(t, repo_id, relative_path) ==
  /\ remote_repos # <<>>
  /\ FreeCall(t)
  /\ tasks' = [tasks EXCEPT ![t] =
       [IdleTask EXCEPT !.pc = "request", !.repo = repo_id,
                        !.path = relative_path]]
  /\ calls' = [calls EXCEPT ![t] =
       [NoCall EXCEPT !.pc = "pending", !.call = "remote_open_path"]]
  /\ outcome' = NoOutcome
  /\ UNCHANGED <<services, rpc_state, remote_repos, remote_buffers>>
  /\ UNCHANGED <<heap, buffers, next_buffer_id, disk>>
  /\ UNCHANGED <<searchVars, registerVars>>

\* RemoteProject::open_buffer: the OpenBuffer request is sent.
RemoteOpenBuffer(t, buffer_id) ==
  /\ remote_repos # <<>>
  /\ FreeCall(t)
  /\ tasks' = [tasks EXCEPT ![t] = [IdleTask EXCEPT !.pc = "request"]]
  /\ calls' = [calls EXCEPT ![t] =
       [NoCall EXCEPT !.pc = "pending", !.call = "remote_open_buffer",
                      !.buffer_id = buffer_id]]
  /\ outcome' = NoOutcome
  /\ UNCHANGED <<services, rpc_state, remote_repos, remote_buffers>>
  /\ UNCHANGED <<heap, buffers, next_buffer_id, disk>>
  /\ UNCHANGED <<searchVars, registerVars>>

\* ProjectService::request, OpenPath: the local project's open_path is
\* called; with an unknown repo id its future is resolved already and the
\* response is the error.
RequestOpenPath(t) ==
  /\ tasks[t].pc = "request"
  /\ calls[t].call = "remote_open_path"
  /\ IF resolve_path(tasks[t].repo, tasks[t].path) = NoPath
     THEN /\ tasks' = [tasks EXCEPT ![t] = IdleTask]
          /\ outcome' = Failed("open_path", "resolve", tasks[t].repo,
                               TreeNotFound)
          /\ Then(t)
     ELSE /\ tasks' = [tasks EXCEPT ![t].pc = "open"]
          /\ outcome' = NoOutcome
          /\ UNCHANGED serviceVars
  /\ UNCHANGED <<heap, buffers, next_buffer_id, disk>>
  /\ UNCHANGED <<searchVars, registerVars>>

\* ProjectService::request, OpenBuffer: the local project's open_buffer
\* resolves in the call.
RequestOpenBuffer(t) ==
  /\ tasks[t].pc = "request"
  /\ calls[t].call = "remote_open_buffer"
  /\ LET buffer == find_by_buffer_id(calls[t].buffer_id)
     IN /\ buffers' = retain_live(buffers)
        /\ IF buffer # NoBuffer
           THEN /\ heap' = AddStrong(buffer)
                /\ tasks' = [tasks EXCEPT ![t] =
                     [IdleTask EXCEPT !.pc = "ok", !.obj = buffer,
                                      !.file = heap[buffer].file]]
                /\ outcome' = Resolved("open_buffer", "lookup", t)
           ELSE /\ heap' = heap
                /\ tasks' = [tasks EXCEPT ![t] = IdleTask]
                /\ outcome' = Failed("open_buffer", "lookup",
                                     calls[t].buffer_id, BufferNotFound)
  /\ Then(t)
  /\ UNCHANGED <<next_buffer_id, disk>>
  /\ UNCHANGED <<searchVars, registerVars>>

\* The `then` closure of RemoteProject::open_path and open_buffer with the
\* response: an error is the error of the call; a service id is taken and
\* Buffer::remote builds the remote buffer on the service.
ResponseReceived(t) ==
  /\ calls[t].pc = "responded"
  /\ IF calls[t].ok
     THEN /\ remote_buffers' = remote_buffers \cup {calls[t].service_id}
          /\ calls' = [calls EXCEPT ![t].pc = "taken"]
          /\ outcome' = Resolved(calls[t].call, "response", t)
     ELSE /\ remote_buffers' = remote_buffers
          /\ calls' = [calls EXCEPT ![t] = NoCall]
          /\ outcome' = Failed(calls[t].call, "response", t, calls[t].error)
  /\ UNCHANGED <<services, rpc_state, remote_repos>>
  /\ UNCHANGED <<heap, buffers, next_buffer_id, disk, tasks>>
  /\ UNCHANGED <<searchVars, registerVars>>

\* The request fails in transport before the service has seen it, or the
\* response does, or take_service or Buffer::remote does: the call fails
\* with RpcError. A buffer service registered for it stays registered.
RpcFails(t, rpc_error) ==
  /\ \/ /\ tasks[t].pc = "request"
        /\ tasks' = [tasks EXCEPT ![t] = IdleTask]
        /\ calls' = [calls EXCEPT ![t] = NoCall]
        /\ outcome' = Failed(calls[t].call, "request", t,
                             ErrorFromRpc(rpc_error))
     \/ /\ calls[t].pc = "responded"
        /\ tasks' = tasks
        /\ calls' = [calls EXCEPT ![t] =
             IF @.ok THEN [@ EXCEPT !.pc = "untaken"] ELSE NoCall]
        /\ outcome' = Failed(calls[t].call, "response", t,
                             ErrorFromRpc(rpc_error))
  /\ UNCHANGED <<services, rpc_state, remote_repos, remote_buffers>>
  /\ UNCHANGED <<heap, buffers, next_buffer_id, disk>>
  /\ UNCHANGED <<searchVars, registerVars>>

ServiceInitState ==
  /\ project \in {"one", "two"}
  /\ ProjectInit
  /\ SearchIdle
  /\ ServiceIdle
  /\ RegisterIdle

\* The path the requests and the local opens beside them ask for, in
\* every tree.
ServicePaths == {"bar"}

ServiceNext ==
  \/ \E o \in HashMapOrders : ServiceInit(o)
  \/ RemoteProjectNew
  \/ \E t \in TaskIds, r \in RepoIdInputs, p \in ServicePaths :
       RemoteOpenPath(t, r, p)
  \/ \E t \in TaskIds, b \in 0 .. next_buffer_id : RemoteOpenBuffer(t, b)
  \/ \E t \in TaskIds : RequestOpenPath(t)
  \/ \E t \in TaskIds : RequestOpenBuffer(t)
  \/ \E t \in TaskIds : ResponseReceived(t)
  \/ \E t \in TaskIds, e \in RpcErrors : RpcFails(t, e)
  \/ \E t \in TaskIds, r \in repos, p \in ServicePaths : OpenPath(t, r, p)
  \/ \E t \in TaskIds : FileOpened(t)
  \/ \E t \in TaskIds, e \in IoErrors : FileOpenFailed(t, e)
  \/ \E t \in TaskIds : FileRead(t)
  \/ \E t \in TaskIds, e \in IoErrors : FileReadFailed(t, e)
  \/ \E t \in TaskIds : DropBuffer(t)
  \/ \E t \in TaskIds : EditBuffer(t)

SpecService == ServiceInitState /\ [][ServiceNext]_vars

(***************************************************************************)
(* Properties of the LocalProject (checked under Spec).                    *)
(***************************************************************************)
Objects == 1 .. Len(heap)

\* The buffers of a file that still have a strong reference.
LiveBuffersOf(file_id) ==
  {o \in Objects : heap[o].strong > 0 /\ heap[o].file = file_id}

Handles == {t \in TaskIds : tasks[t].pc = "ok"}

\* C1: two open_path calls for the same (repo, path) that were in flight at
\* the same time and both resolved hold references to the same buffer.
C1_ConcurrentOpensSameBuffer ==
  \A t, u \in Handles :
    (/\ tasks[t].path # ""
     /\ tasks[t].repo = tasks[u].repo
     /\ tasks[t].path = tasks[u].path) => tasks[t].obj = tasks[u].obj

\* Both calls were suspended at the file read together: one created the
\* buffer, the other found it at the re-check.
C1_Witness ==
  \E t, u \in Handles :
    /\ t # u
    /\ tasks[t].path = tasks[u].path
    /\ tasks[t].repo = tasks[u].repo
    /\ outcome = Resolved("open_path", "recheck", u)
    /\ tasks[t].obj = tasks[u].obj

\* C2: at most one live buffer is bound to any file identity.
C2_OneLiveBufferPerFile ==
  \A f \in FileIds : Cardinality(LiveBuffersOf(f)) <= 1

\* A file has had two buffers; the first was released, the second is live
\* while another open of the file is in flight.
C2_Witness ==
  \E o, d \in Objects :
    /\ heap[o].file = heap[d].file
    /\ heap[o].strong > 0
    /\ heap[d].strong = 0
    /\ \E t \in TaskIds : tasks[t].pc = "read" /\ tasks[t].file = heap[o].file

\* A step in which the file provider's open of task t succeeds.
OpenSucceeds(t) == tasks[t].pc = "open" /\ tasks'[t].pc \in {"read", "ok"}

\* C3: while a buffer of the file is held, an open_path whose file-provider
\* open succeeds returns that buffer: no id is allocated, the file is not
\* read, and the buffer's text is left as it is.
C3_HeldBufferIsReturned ==
  [][\A t \in TaskIds :
       OpenSucceeds(t) =>
         \A o \in LiveBuffersOf(FileIdOf(<<tasks[t].repo, tasks[t].path>>)) :
           /\ tasks'[t].pc = "ok"
           /\ tasks'[t].obj = o
           /\ next_buffer_id' = next_buffer_id
           /\ Len(heap') = Len(heap)
           /\ heap'[o].content = heap[o].content
           /\ heap'[o].strong = heap[o].strong + 1]_vars

\* A second handle, obtained by the first registry check, shows the edit
\* made through the first handle, not the file's contents.
C3_Witness ==
  \E t, u \in Handles :
    /\ t # u
    /\ tasks[t].obj = tasks[u].obj
    /\ outcome = Resolved("open_path", "check", u)
    /\ heap[tasks[u].obj].content = EditedContent
    /\ disk[tasks[u].file] # EditedContent

\* A step in which the file read of task t succeeds.
ReadSucceeds(t) == tasks[t].pc = "read" /\ tasks'[t].pc = "ok"

\* C4: once every strong reference to a file's buffer is dropped, an open of
\* the file reads the file and creates a new buffer, with a new id and the
\* file's contents; a buffer with a reference left stays registered.
C4_ReleasedBufferIsRecreated ==
  /\ [][\A t \in TaskIds :
          /\ (OpenSucceeds(t)
              /\ LiveBuffersOf(FileIdOf(<<tasks[t].repo, tasks[t].path>>)) = {})
             => tasks'[t].pc = "read"
          /\ (ReadSucceeds(t) /\ LiveBuffersOf(tasks[t].file) = {})
             => /\ Len(heap') = Len(heap) + 1
                /\ tasks'[t].obj = Len(heap')
                /\ heap'[Len(heap')].file = tasks[t].file
                /\ heap'[Len(heap')].content = disk[tasks[t].file]
                /\ heap'[Len(heap')].strong = 1
                /\ \A d \in Objects : /\ heap[d].id # heap'[Len(heap')].id
                                      /\ heap'[d] = heap[d]]_vars
  /\ [](\A o \in Objects :
          heap[o].strong > 0 =>
            /\ \E i \in 1 .. Len(buffers) : buffers[i].obj = o
            /\ heap[o].strong = Cardinality({t \in Handles : tasks[t].obj = o}))

\* A file's buffer was released; the last step created a new buffer for the
\* file, with another id and the file's contents.
C4_Witness ==
  \E o, d \in Objects :
    /\ heap[o].file = heap[d].file
    /\ heap[d].strong = 0
    /\ heap[o].strong > 0
    /\ outcome.at = "created"
    /\ tasks[outcome.arg].obj = o
    /\ heap[o].content = disk[heap[o].file]
    /\ heap[o].id # heap[d].id

\* C5: the counter never decreases, advances by one per buffer created, and
\* the ids of all buffers ever created are 0, 1, 2, ... in creation order.
C5_BufferIdsDenseAndUnique ==
  /\ [][/\ next_buffer_id' >= next_buffer_id
        /\ next_buffer_id' - next_buffer_id = Len(heap') - Len(heap)]_vars
  /\ [](/\ next_buffer_id = Len(heap)
        /\ \A o \in Objects : heap[o].id = o - 1
        /\ \A i, j \in 1 .. Len(buffers) :
             (buffers[i].id = buffers[j].id) => i = j)

\* Two buffers were created, the first of them is released.
C5_Witness ==
  /\ next_buffer_id = 2
  /\ heap[1].strong = 0
  /\ heap[2].strong > 0
  /\ heap[1].id # heap[2].id

\* C6: open_path with an unregistered repo id fails with TreeNotFound in the
\* call itself; no file-provider request is made and nothing else changes.
C6_UnknownRepoFails ==
  /\ [][\A r \in RepoIdInputs \ repos, p \in Paths :
          ((\E t \in TaskIds : OpenPath(t, r, p)) \/ OpenPathUnknownRepo(r, p))
            => /\ outcome'.error = TreeNotFound
               /\ UNCHANGED <<heap, buffers, next_buffer_id, disk, tasks>>]_vars
  /\ [](\A t \in TaskIds : tasks[t].pc # "idle" => tasks[t].repo \in repos)

\* The call failed while a buffer was registered and an open was in flight.
C6_Witness ==
  /\ outcome.call = "open_path"
  /\ outcome.error = TreeNotFound
  /\ outcome.arg \notin repos
  /\ buffers # <<>>
  /\ \E t \in TaskIds : tasks[t].pc = "open"

\* C7: open_buffer(id) resolves in the call: to the buffer created with that
\* id when it still has a strong reference, to BufferNotFound otherwise; a
\* released buffer never has a strong reference again.
C7_OpenBufferByLiveId ==
  [][/\ \A b \in 0 .. next_buffer_id :
          (\E t \in TaskIds : OpenBuffer(t, b)) =>
            LET live == {o \in Objects : heap[o].id = b /\ heap[o].strong > 0}
            IN IF live # {}
               THEN /\ outcome'.error = NoError
                    /\ \E t \in TaskIds :
                         /\ tasks[t].pc = "idle"
                         /\ tasks'[t].pc = "ok"
                         /\ tasks'[t].obj \in live
                         /\ \A u \in TaskIds \ {t} : tasks'[u] = tasks[u]
               ELSE /\ outcome'.error = BufferNotFound
                    /\ tasks' = tasks
                    /\ heap' = heap
     /\ \A o \in Objects : heap[o].strong = 0 => heap'[o].strong = 0]_vars

\* open_buffer failed for the id of a released buffer while another buffer
\* is held.
C7_Witness ==
  /\ outcome.call = "open_buffer"
  /\ outcome.error = BufferNotFound
  /\ \E d \in Objects : heap[d].id = outcome.arg /\ heap[d].strong = 0
  /\ Handles # {}

\* C8: a failure of the file provider's open or of the read resolves the
\* call to IoError with the cause's description; the registry, the counter,
\* the buffers and the other futures are left as they are.
C8_IoFailure ==
  [][\A t \in TaskIds, e \in IoErrors :
       (FileOpenFailed(t, e) \/ FileReadFailed(t, e)) =>
         /\ outcome'.error.kind = "IoError"
         /\ outcome'.error.msg = Description(e)
         /\ outcome'.error.msg # ""
         /\ UNCHANGED <<heap, buffers, next_buffer_id>>
         /\ tasks'[t].pc = "idle"
         /\ \A u \in TaskIds \ {t} : tasks'[u] = tasks[u]]_vars

\* A read failed while a buffer of another file was held.
C8_Witness ==
  /\ outcome.at = "read"
  /\ outcome.error.kind = "IoError"
  /\ outcome.error.msg = Description("PermissionDenied")
  /\ \E o \in Objects : heap[o].strong > 0
  /\ buffers # <<>>

(***************************************************************************)
(* Path search: bounds and the constants of the code.                      *)
(***************************************************************************)
\* max_results ranges over 0 .. MaxResults
MaxResults == 3
\* the scorer reports scores in 1 .. MaxScore
MaxScore == 3
\* calls of poll on one search
MaxPolls == 2

\* steps_between_checks of find_matches and of rank_matches
FindStepsBetweenChecks == 10000
RankStepsBetweenChecks == 1000

(***************************************************************************)
(* The trees of a project.  An entry is addressed by its place in the      *)
(* project's entry table; its id is the fs::EntryId the tree gave it.      *)
(***************************************************************************)
File(id, name) ==
  [id |-> id, name |-> name, dir |-> FALSE, ignored |-> FALSE,
   children |-> <<>>]

Dir(id, name, children) ==
  [id |-> id, name |-> name, dir |-> TRUE, ignored |-> FALSE,
   children |-> children]

Ignored(an_entry) == [an_entry EXCEPT !.ignored = TRUE]

\* "one": a single tree   r/ { a/ { b, c, z (ignored) }, ab, x/ (ignored) { ab } }
\* "two": two trees       p/ { a }   and   q/ { b/ { a }, c }
\* "twins": the trees of "two", each tree numbering its entries from 0
\* "shadow": two trees   p/ { a (ignored) }   and   q/ { b/ { a } }, each
\*           tree numbering its entries from 0
SmallTrees ==
  [one |-> << Dir(1, <<"r">>, <<2, 5, 6>>),
              Dir(2, <<"a">>, <<3, 4, 8>>),
              File(3, <<"b">>),
              File(4, <<"c">>),
              File(5, <<"a", "b">>),
              Ignored(Dir(6, <<"x">>, <<7>>)),
              File(7, <<"a", "b">>),
              Ignored(File(8, <<"z">>)) >>,
   two |-> << Dir(1, <<"p">>, <<2>>),
              File(2, <<"a">>),
              Dir(3, <<"q">>, <<4, 5>>),
              Dir(4, <<"b">>, <<6>>),
              File(5, <<"c">>),
              File(6, <<"a">>) >>,
   twins |-> << Dir(0, <<"p">>, <<2>>),
                File(1, <<"a">>),
                Dir(0, <<"q">>, <<4, 5>>),
                Dir(1, <<"b">>, <<6>>),
                File(3, <<"c">>),
                File(2, <<"a">>) >>,
   shadow |-> << Dir(0, <<"p">>, <<2>>),
                 Ignored(File(1, <<"a">>)),
                 Dir(0, <<"q">>, <<4>>),
                 Dir(1, <<"b">>, <<5>>),
                 File(2, <<"a">>) >>]

\* "big": one tree whose root holds as many files, all named c, as phase 1
\* runs steps between two checks of the observer, and after them an ignored
\* directory x with as many files again.
\* "hidden": one tree whose root holds nothing but an ignored directory x
\* with twice as many files.
\* "mid": one tree whose root holds as many files, all named c, as phase 2
\* runs steps between two checks of the observer, and nothing else.
BigTreeFiles == FindStepsBetweenChecks

MidTreeFiles == RankStepsBetweenChecks

LargeProjects == {"big", "hidden", "mid"}

Projects == {"one", "two", "twins", "shadow"} \cup LargeProjects

\* The ignored directory of a large tree (0: the tree has none).
LargeIgnoredDir ==
  IF project = "big" THEN BigTreeFiles + 2
  ELSE IF project = "hidden" THEN 2
  ELSE 0

LargeEntry(a) ==
  IF a = 1 THEN Dir(1, <<"r">>, <<>>)
  ELSE IF a = LargeIgnoredDir THEN Ignored(Dir(a, <<"x">>, <<>>))
  ELSE File(a, <<"c">>)

LargeChildrenLen(children) ==
  IF children = 1
  THEN IF project = "mid" THEN MidTreeFiles ELSE LargeIgnoredDir - 1
  ELSE IF children = LargeIgnoredDir
       THEN 2 * BigTreeFiles + 2 - LargeIgnoredDir
  ELSE 0

LargeChild(children, child_index) ==
  IF children = 1 THEN child_index + 2
  ELSE LargeIgnoredDir + 1 + child_index

\* The number of entries of the project's trees.
EntryCount ==
  IF project = "mid" THEN MidTreeFiles + 1
  ELSE IF project \in LargeProjects THEN 2 * BigTreeFiles + 2
  ELSE Len(SmallTrees[project])

entry(a) ==
  IF project \in LargeProjects THEN LargeEntry(a)
  ELSE SmallTrees[project][a]

\* A children vector is named by the directory it belongs to, 0 naming the
\* vector of the roots.
RootsVector == 0

ChildrenLen(children) ==
  IF children = RootsVector THEN Len(search.roots)
  ELSE IF project \in LargeProjects THEN LargeChildrenLen(children)
  ELSE Len(entry(children).children)

\* children[child_index]
Child(children, child_index) ==
  IF children = RootsVector THEN search.roots[child_index + 1]
  ELSE IF project \in LargeProjects THEN LargeChild(children, child_index)
  ELSE entry(children).children[child_index + 1]

\* fs::Entry::name_chars: the name, a directory's followed by a slash.
name_chars(a) ==
  IF entry(a).dir THEN entry(a).name \o <<"/">> ELSE entry(a).name

(***************************************************************************)
(* The inputs of search_paths.                                             *)
(***************************************************************************)
Needles == {<<>>, <<"a">>, <<"b">>, <<"a", "b">>}

\* The orders in which the HashMap of the trees may be iterated.
SnapshotOrders(p) ==
  {o \in [1 .. Len(TreeRoots(p)) -> 0 .. Len(TreeRoots(p)) - 1] :
     \A i, j \in DOMAIN o : i # j => o[i] # o[j]}

\* The large trees are searched with one max_results, with the empty
\* needle and with a needle none of their entries matches.
SearchInputs(p) ==
  IF p \in LargeProjects
  THEN [needle : {<<>>, <<"a", "b">>}, max_results : {1},
        include_ignored : {FALSE}]
  ELSE [needle : Needles, max_results : 0 .. MaxResults,
        include_ignored : BOOLEAN]

(***************************************************************************)
(* fuzzy::Matcher and fuzzy::Scorer: stacks of path segments.              *)
(***************************************************************************)
RECURSIVE Flatten(_)
Flatten(segments) ==
  IF segments = <<>> THEN <<>>
  ELSE Head(segments) \o Flatten(Tail(segments))

RECURSIVE IsSubsequence(_, _)
IsSubsequence(needle, haystack) ==
  IF needle = <<>> THEN TRUE
  ELSE IF haystack = <<>> THEN FALSE
  ELSE IF Head(needle) = Head(haystack)
       THEN IsSubsequence(Tail(needle), Tail(haystack))
       ELSE IsSubsequence(needle, Tail(haystack))

\* Matcher::push: the segment is pushed; the answer is whether the needle is
\* matched by the segments pushed so far.
matcher_push(segments, segment) == Append(segments, segment)

matcher_matches(segments) == IsSubsequence(search.needle, Flatten(segments))

\* Matcher::pop and Scorer::pop
pop_segment(segments) ==
  IF segments = <<>> THEN <<>> ELSE SubSeq(segments, 1, Len(segments) - 1)

\* The scores the scorer may report for a path.
Scores == 1 .. MaxScore

\* The ways the needle matches a path: for each character of the needle the
\* index (from 0) of a character of the path equal to it, ascending.
Alignments(needle, path) ==
  {p \in [1 .. Len(needle) -> 0 .. Len(path) - 1] :
     /\ \A k \in 1 .. Len(needle) : path[p[k] + 1] = needle[k]
     /\ \A k \in 1 .. Len(needle) - 1 : p[k] < p[k + 1]}

\* What the positions buffer may hold after Scorer::push of a file name: a
\* match of the needle in the path pushed so far; nothing is known of the
\* buffer when the needle does not match the path.
ScorerPositions(path) ==
  IF Alignments(search.needle, path) # {}
  THEN Alignments(search.needle, path)
  ELSE [1 .. Len(search.needle) -> 0 .. Len(path)]

\* Scorer::push of a file name: the score and the positions of the path
\* pushed so far are those the scorer reported for this path before, or
\* else any score and any of the positions above.
ScorerMayReport(path, score, reported) ==
  IF path \in DOMAIN scores
  THEN score = scores[path].score /\ reported = scores[path].positions
  ELSE score \in Scores /\ reported \in ScorerPositions(path)

(***************************************************************************)
(* Ordering of results and the BinaryHeap of rank_matches.                 *)
(***************************************************************************)
\* partial_cmp of two scores
Compare(x, y) ==
  IF x < y THEN "Less" ELSE IF x > y THEN "Greater" ELSE "Equal"

\* Mutation: the comparison is not reversed.
partial_cmp_unreversed(a, b) == Compare(a.score, b.score)

\* impl PartialOrd for PathSearchResult: other.score.partial_cmp(&self.score)
partial_cmp(a, b) == Compare(b.score, a.score)

\* The operators the heap compares its elements with (a <= b, a > b, a >= b).
le(a, b) == partial_cmp(a, b) \in {"Less", "Equal"}

gt(a, b) == partial_cmp(a, b) = "Greater"

ge(a, b) == partial_cmp(a, b) \in {"Greater", "Equal"}

\* data.swap(i, j), positions counted from 0
Swap(data, i, j) ==
  [data EXCEPT ![i + 1] = data[j + 1], ![j + 1] = data[i + 1]]

RECURSIVE sift_up(_, _, _)
sift_up(data, start, pos) ==
  IF pos > start
  THEN LET parent == (pos - 1) \div 2
       IN IF le(data[pos + 1], data[parent + 1]) THEN data
          ELSE sift_up(Swap(data, pos, parent), start, parent)
  ELSE data

\* The child a hole at pos moves to: the greater of the two children.
GreaterChild(data, pos, end) ==
  LET child == 2 * pos + 1
      right == child + 1
  IN IF right < end /\ ~gt(data[child + 1], data[right + 1])
     THEN right ELSE child

RECURSIVE sift_down_range(_, _, _)
sift_down_range(data, pos, end) ==
  IF 2 * pos + 1 < end
  THEN LET child == GreaterChild(data, pos, end)
       IN IF ge(data[pos + 1], data[child + 1]) THEN data
          ELSE sift_down_range(Swap(data, pos, child), child, end)
  ELSE data

RECURSIVE sift_down_to_bottom(_, _, _)
sift_down_to_bottom(data, start, pos) ==
  IF 2 * pos + 1 < Len(data)
  THEN LET child == GreaterChild(data, pos, Len(data))
       IN sift_down_to_bottom(Swap(data, pos, child), start, child)
  ELSE sift_up(data, start, pos)

\* BinaryHeap::peek, on a heap that is not empty
heap_peek(data) == data[1]

\* BinaryHeap::push
heap_push(data, item) == sift_up(Append(data, item), 0, Len(data))

\* BinaryHeap::pop: the heap that is left
heap_pop(data) ==
  IF Len(data) <= 1 THEN <<>>
  ELSE sift_down_to_bottom(
         [SubSeq(data, 1, Len(data) - 1) EXCEPT ![1] = data[Len(data)]], 0, 0)

RECURSIVE sort_heap(_, _)
sort_heap(data, end) ==
  IF end > 1
  THEN sort_heap(sift_down_range(Swap(data, 0, end - 1), 0, end - 1), end - 1)
  ELSE data

\* BinaryHeap::into_sorted_vec
into_sorted_vec(data) == sort_heap(data, Len(data))

(***************************************************************************)
(* The status cell.                                                        *)
(***************************************************************************)
\* WeakNotifyCell::has_observers
has_observers == observer

\* WeakNotifyCell::try_set: the value is stored while the cell is alive,
\* which it is as long as its observer is.
try_set_clears(value) == IF has_observers THEN value ELSE Pending

try_set(value) == IF has_observers THEN value ELSE status

\* poll: the `?` after find_matches and after rank_matches returns Err(())
\* before the try_set at the end of poll, so the cell keeps its value.
StatusOnError_partial == Ready(results)

StatusOnError == status

(***************************************************************************)
(* check_cancellation                                                      *)
(***************************************************************************)
\* Mutation: the check never fails.
Cancelled_never(steps_between_checks) == FALSE

\* The check returns Err: the counter reaches the threshold and nobody
\* observes the cell.
Cancelled(steps_between_checks) ==
  /\ walk.steps_since_last_check + 1 = steps_between_checks
  /\ ~has_observers

\* The counter the check leaves when it returns Ok.
StepsChecked(steps_between_checks) ==
  IF walk.steps_since_last_check + 1 = steps_between_checks
  THEN 0 ELSE walk.steps_since_last_check + 1

(***************************************************************************)
(* The locals of the two walks.                                            *)
(***************************************************************************)
\* children, child_index, found_match, steps_since_last_check at the start
\* of a phase
InitialWalk ==
  [children |-> IF Len(search.roots) = 1 THEN search.roots[1]
                ELSE RootsVector,
   child_index |-> 0, found_match |-> FALSE, steps_since_last_check |-> 0]

HasChild == walk.child_index < ChildrenLen(walk.children)

\* children[child_index]
Current == Child(walk.children, walk.child_index)

\* child_index += 1 after a passed check
Advance(steps_between_checks) ==
  [walk EXCEPT !.child_index = @ + 1,
               !.steps_since_last_check = StepsChecked(steps_between_checks)]

StackEntry ==
  [children |-> walk.children, child_index |-> walk.child_index,
   found_match |-> walk.found_match]

\* The walk after descending into children[child_index].
Descend(steps_between_checks, child_is_match) ==
  [children |-> Current, child_index |-> 0, found_match |-> child_is_match,
   steps_since_last_check |-> StepsChecked(steps_between_checks)]

Top == stack[Len(stack)]

Popped == SubSeq(stack, 1, Len(stack) - 1)

\* HashMap::insert
Insert(map, key, value) == (key :> value) @@ map

(***************************************************************************)
(* search_paths, poll and the observer.                                    *)
(***************************************************************************)
\* LocalProject::new for a search: the project owns one of the tree sets.
SearchInit ==
  /\ project \in Projects
  /\ ProjectInit
  /\ SearchIdle
  /\ ServiceIdle
  /\ RegisterIdle

\* LocalProject::search_paths: the snapshot of repo ids and roots in the
\* order the HashMap yields them, and a fresh cell holding Pending.
SearchPaths(order, needle, max_results, include_ignored) ==
  /\ pc = "none"
  /\ search' = [repo_ids |-> order,
                roots |-> [i \in DOMAIN order |->
                             TreeRoots(project)[order[i] + 1]],
                needle |-> needle, max_results |-> max_results,
                include_ignored |-> include_ignored]
  /\ stack' = <<>>
  /\ status' = Pending
  /\ observer' = TRUE
  /\ pc' = "created"
  /\ UNCHANGED <<project, local_search, observed_at_poll,
                 polls, walk, matches, results, matcher, scorer,
                 scores>>
  /\ UNCHANGED <<projectVars, serviceVars, registerVars>>

\* The consumer drops the observer of the status cell.
DropObserver ==
  /\ pc # "none"
  /\ observer
  /\ observer' = FALSE
  /\ UNCHANGED <<project, local_search, observed_at_poll,
                 search, stack, status, pc, polls, walk, matches,
                 results, matcher, scorer, scores>>
  /\ UNCHANGED <<projectVars, serviceVars, registerVars>>

\* self.needle.is_empty(), the test that opens poll.
needle_is_empty_never == FALSE

needle_is_empty == search.needle = <<>>

\* PathSearch::poll is entered: an empty needle publishes Ready([]) and
\* returns; otherwise find_matches starts.
Poll ==
  /\ pc \in {"created", "done", "cancelled"}
  /\ polls < MaxPolls
  /\ polls' = polls + 1
  /\ observed_at_poll' = has_observers
  /\ IF needle_is_empty
     THEN /\ status' = try_set(Ready(<<>>))
          /\ pc' = "done"
          /\ UNCHANGED <<walk, matches, matcher>>
     ELSE /\ pc' = "find"
          /\ walk' = InitialWalk
          /\ matches' = <<>>
          /\ matcher' = <<>>
          /\ UNCHANGED status
  /\ UNCHANGED <<project, local_search, search, stack, observer, results,
                 scorer, scores>>
  /\ UNCHANGED <<projectVars, serviceVars, registerVars>>

(***************************************************************************)
(* find_matches: one action per branch of one iteration of the loop.       *)
(***************************************************************************)
FindUnchanged ==
  /\ UNCHANGED <<project, local_search, observed_at_poll,
                 search, status, observer, polls, results, scorer,
                 scores>>
  /\ UNCHANGED <<projectVars, serviceVars, registerVars>>

\* check_cancellation fails: find_matches and poll return Err(()).
FindCancelled ==
  /\ pc = "find"
  /\ Cancelled(FindStepsBetweenChecks)
  /\ pc' = "cancelled"
  /\ status' = StatusOnError
  /\ walk' = NoWalk
  /\ matches' = <<>>
  /\ matcher' = <<>>
  /\ UNCHANGED <<project, local_search, observed_at_poll,
                 search, stack, observer, polls, results, scorer,
                 scores>>
  /\ UNCHANGED <<projectVars, serviceVars, registerVars>>

\* An ignored entry is stepped over.
FindIgnored ==
  /\ pc = "find"
  /\ ~Cancelled(FindStepsBetweenChecks)
  /\ HasChild
  /\ entry(Current).ignored
  /\ walk' = Advance(FindStepsBetweenChecks)
  /\ UNCHANGED <<pc, stack, matches, matcher>>
  /\ FindUnchanged

\* The matcher reports a match: the entry is marked IsMatch.
FindIsMatch ==
  /\ pc = "find"
  /\ ~Cancelled(FindStepsBetweenChecks)
  /\ HasChild
  /\ ~entry(Current).ignored
  /\ matcher_matches(matcher_push(matcher, name_chars(Current)))
  /\ matches' = Insert(matches, entry(Current).id, "IsMatch")
  /\ walk' = [Advance(FindStepsBetweenChecks) EXCEPT !.found_match = TRUE]
  /\ UNCHANGED <<pc, stack, matcher>>
  /\ FindUnchanged

\* No match on a directory: the walk descends, the segment stays pushed.
FindDescend ==
  /\ pc = "find"
  /\ ~Cancelled(FindStepsBetweenChecks)
  /\ HasChild
  /\ ~entry(Current).ignored
  /\ ~matcher_matches(matcher_push(matcher, name_chars(Current)))
  /\ entry(Current).dir
  /\ matcher' = matcher_push(matcher, name_chars(Current))
  /\ stack' = Append(stack, StackEntry)
  /\ walk' = Descend(FindStepsBetweenChecks, FALSE)
  /\ UNCHANGED <<pc, matches>>
  /\ FindUnchanged

\* No match on a file: the segment is popped.
FindNoMatch ==
  /\ pc = "find"
  /\ ~Cancelled(FindStepsBetweenChecks)
  /\ HasChild
  /\ ~entry(Current).ignored
  /\ ~matcher_matches(matcher_push(matcher, name_chars(Current)))
  /\ ~entry(Current).dir
  /\ walk' = Advance(FindStepsBetweenChecks)
  /\ UNCHANGED <<pc, stack, matches, matcher>>
  /\ FindUnchanged

\* The children are exhausted: back to the parent frame, whose entry is
\* marked ContainsMatch if the subtree held a match.
FindAscend ==
  /\ pc = "find"
  /\ ~Cancelled(FindStepsBetweenChecks)
  /\ ~HasChild
  /\ stack # <<>>
  /\ matcher' = pop_segment(matcher)
  /\ stack' = Popped
  /\ matches' = IF walk.found_match
                THEN Insert(matches,
                            entry(Child(Top.children, Top.child_index)).id,
                            "ContainsMatch")
                ELSE matches
  /\ walk' = [children |-> Top.children,
              child_index |-> Top.child_index + 1,
              found_match |-> IF walk.found_match THEN TRUE
                              ELSE Top.found_match,
              steps_since_last_check |-> StepsChecked(FindStepsBetweenChecks)]
  /\ UNCHANGED pc
  /\ FindUnchanged

\* break: find_matches returns the map and rank_matches starts.
FindDone ==
  /\ pc = "find"
  /\ ~Cancelled(FindStepsBetweenChecks)
  /\ ~HasChild
  /\ stack = <<>>
  /\ pc' = "rank"
  /\ matcher' = <<>>
  /\ results' = <<>>
  /\ scorer' = <<>>
  /\ walk' = InitialWalk
  /\ UNCHANGED <<project, local_search, observed_at_poll,
                 search, stack, status, observer, polls, matches,
                 scores>>
  /\ UNCHANGED <<projectVars, serviceVars, registerVars>>

(***************************************************************************)
(* rank_matches: one action per branch of one iteration of the loop.       *)
(***************************************************************************)
RankUnchanged ==
  /\ UNCHANGED <<project, local_search, observed_at_poll,
                 search, status, observer, polls, matches, matcher>>
  /\ UNCHANGED <<projectVars, serviceVars, registerVars>>

SkipsIgnored_never == FALSE

\* The entry is ignored and ignored entries are not wanted.
SkipsIgnored == entry(Current).ignored /\ ~search.include_ignored

\* descend and child_is_match of a directory
DirDescends ==
  walk.found_match \/ entry(Current).id \in DOMAIN matches

DirIsMatch ==
  \/ walk.found_match
  \/ /\ entry(Current).id \in DOMAIN matches
     /\ matches[entry(Current).id] = "IsMatch"

\* A file is scored inside a matched subtree or when the map holds its id.
FileIsCandidate ==
  walk.found_match \/ entry(Current).id \in DOMAIN matches

\* The entries the frames of the stack stand at, bottom first.
StackChildren ==
  [i \in 1 .. Len(stack) |-> Child(stack[i].children, stack[i].child_index)]

ResultRepoId_first == search.repo_ids[1]

\* repo_ids[0], or repo_ids[stack[0].child_index]
ResultRepoId ==
  IF Len(search.roots) = 1 THEN search.repo_ids[1]
  ELSE search.repo_ids[stack[1].child_index + 1]

ResultRelativePath_all_frames ==
  [i \in 1 .. Len(StackChildren) |-> entry(StackChildren[i]).name]
    \o <<entry(Current).name>>

\* The names of the frames' entries (the first frame left out when there
\* are several roots), then the file's name.
ResultRelativePath ==
  LET frames == IF Len(search.roots) = 1 THEN StackChildren
                ELSE Tail(StackChildren)
  IN [i \in 1 .. Len(frames) |-> entry(frames[i]).name]
       \o <<entry(Current).name>>

\* The name_chars of the frames' entries, then the file's.
ResultDisplayPath ==
  Flatten([i \in 1 .. Len(stack) |-> name_chars(StackChildren[i])])
    \o name_chars(Current)

\* What the scorer has been pushed when it scores the current file.
ScoredPath == Flatten(Append(scorer, name_chars(Current)))

PathSearchResult(score, positions) ==
  [score |-> score, positions |-> positions, repo_id |-> ResultRepoId,
   relative_path |-> ResultRelativePath, display_path |-> ResultDisplayPath]

\* results.len() < max_results || score > results.peek().score (peek is
\* evaluated only when the first operand is false)
Admits(score) ==
  \/ Len(results) < search.max_results
  \/ score > heap_peek(results).score

\* results.peek() is None where it is unwrapped.
PeekOfEmptyHeap ==
  /\ ~(Len(results) < search.max_results)
  /\ results = <<>>

\* The heap after an admitted result: the top is popped first if the heap
\* is full.
Admitted(item) ==
  heap_push(IF Len(results) = search.max_results THEN heap_pop(results)
            ELSE results, item)

\* check_cancellation fails: rank_matches and poll return Err(()).
RankCancelled ==
  /\ pc = "rank"
  /\ Cancelled(RankStepsBetweenChecks)
  /\ pc' = "cancelled"
  /\ status' = StatusOnError
  /\ walk' = NoWalk
  /\ results' = <<>>
  /\ scorer' = <<>>
  /\ matches' = <<>>
  /\ UNCHANGED <<project, local_search, observed_at_poll,
                 search, stack, observer, polls, matcher,
                 scores>>
  /\ UNCHANGED <<projectVars, serviceVars, registerVars>>

RankSkipIgnored ==
  /\ pc = "rank"
  /\ ~Cancelled(RankStepsBetweenChecks)
  /\ HasChild
  /\ SkipsIgnored
  /\ walk' = Advance(RankStepsBetweenChecks)
  /\ UNCHANGED <<pc, stack, results, scorer, scores>>
  /\ RankUnchanged

\* A directory that is, contains or lies under a match: its name is pushed
\* on the scorer and the walk descends.
RankDescend ==
  /\ pc = "rank"
  /\ ~Cancelled(RankStepsBetweenChecks)
  /\ HasChild
  /\ ~SkipsIgnored
  /\ entry(Current).dir
  /\ DirDescends
  /\ scorer' = Append(scorer, name_chars(Current))
  /\ stack' = Append(stack, StackEntry)
  /\ walk' = Descend(RankStepsBetweenChecks, DirIsMatch)
  /\ UNCHANGED <<pc, results, scores>>
  /\ RankUnchanged

\* A directory without a marker outside a matched subtree.
RankSkipDir ==
  /\ pc = "rank"
  /\ ~Cancelled(RankStepsBetweenChecks)
  /\ HasChild
  /\ ~SkipsIgnored
  /\ entry(Current).dir
  /\ ~DirDescends
  /\ walk' = Advance(RankStepsBetweenChecks)
  /\ UNCHANGED <<pc, stack, results, scorer, scores>>
  /\ RankUnchanged

\* A file that is no candidate.
RankSkipFile ==
  /\ pc = "rank"
  /\ ~Cancelled(RankStepsBetweenChecks)
  /\ HasChild
  /\ ~SkipsIgnored
  /\ ~entry(Current).dir
  /\ ~FileIsCandidate
  /\ walk' = Advance(RankStepsBetweenChecks)
  /\ UNCHANGED <<pc, stack, results, scorer, scores>>
  /\ RankUnchanged

\* A candidate file is scored, and admitted to the heap or not.
RankScoreFile(score) ==
  /\ pc = "rank"
  /\ ~Cancelled(RankStepsBetweenChecks)
  /\ HasChild
  /\ ~SkipsIgnored
  /\ ~entry(Current).dir
  /\ FileIsCandidate
  /\ ~PeekOfEmptyHeap
  /\ \E positions \in ScorerPositions(ScoredPath) :
       /\ ScorerMayReport(ScoredPath, score, positions)
       /\ scores' = Insert(scores, ScoredPath,
                           [score |-> score, positions |-> positions])
       /\ results' = IF Admits(score)
                     THEN Admitted(PathSearchResult(score, positions))
                     ELSE results
  /\ walk' = Advance(RankStepsBetweenChecks)
  /\ UNCHANGED <<pc, stack, scorer>>
  /\ RankUnchanged

\* A candidate file is scored while the heap is empty and max_results is 0:
\* unwrap() of None panics and poll unwinds.
RankPanic ==
  /\ pc = "rank"
  /\ ~Cancelled(RankStepsBetweenChecks)
  /\ HasChild
  /\ ~SkipsIgnored
  /\ ~entry(Current).dir
  /\ FileIsCandidate
  /\ PeekOfEmptyHeap
  /\ pc' = "panicked"
  /\ walk' = NoWalk
  /\ results' = <<>>
  /\ scorer' = <<>>
  /\ matches' = <<>>
  /\ UNCHANGED <<project, local_search, observed_at_poll,
                 search, stack, status, observer, polls, matcher,
                 scores>>
  /\ UNCHANGED <<projectVars, serviceVars, registerVars>>

\* The children are exhausted: back to the parent frame.
RankAscend ==
  /\ pc = "rank"
  /\ ~Cancelled(RankStepsBetweenChecks)
  /\ ~HasChild
  /\ stack # <<>>
  /\ scorer' = pop_segment(scorer)
  /\ stack' = Popped
  /\ walk' = [children |-> Top.children,
              child_index |-> Top.child_index + 1,
              found_match |-> Top.found_match,
              steps_since_last_check |-> StepsChecked(RankStepsBetweenChecks)]
  /\ UNCHANGED <<pc, results, scores>>
  /\ RankUnchanged

\* break: the heap is sorted, poll publishes Ready(results) and returns
\* Ok(Async::Ready(())).
RankDone ==
  /\ pc = "rank"
  /\ ~Cancelled(RankStepsBetweenChecks)
  /\ ~HasChild
  /\ stack = <<>>
  /\ status' = try_set(Ready(into_sorted_vec(results)))
  /\ pc' = "done"
  /\ walk' = NoWalk
  /\ results' = <<>>
  /\ scorer' = <<>>
  /\ matches' = <<>>
  /\ UNCHANGED <<project, local_search, observed_at_poll,
                 search, stack, observer, polls, matcher, scores>>
  /\ UNCHANGED <<projectVars, serviceVars, registerVars>>

SearchNext ==
  \/ \E o \in SnapshotOrders(project), i \in SearchInputs(project) :
       SearchPaths(o, i.needle, i.max_results, i.include_ignored)
  \/ DropObserver
  \/ Poll
  \/ FindCancelled
  \/ FindIgnored
  \/ FindIsMatch
  \/ FindDescend
  \/ FindNoMatch
  \/ FindAscend
  \/ FindDone
  \/ RankCancelled
  \/ RankSkipIgnored
  \/ RankDescend
  \/ RankSkipDir
  \/ RankSkipFile
  \/ \E score \in Scores : RankScoreFile(score)
  \/ RankPanic
  \/ RankAscend
  \/ RankDone

SpecSearch == SearchInit /\ [][SearchNext]_vars

(***************************************************************************)
(* Properties of the path search (checked under SpecSearch).               *)
(***************************************************************************)
\* The paths of the published results.
ListedPaths == {status.list[i].display_path : i \in DOMAIN status.list}

\* The candidates of the search: the paths the scorer has scored.
Candidates == DOMAIN scores

\* The published list holds at most max_results results, and no candidate
\* left out of it scores higher than a result kept in it.
TopResultsKept ==
  /\ Len(status.list) <= search.max_results
  /\ \A path \in Candidates \ ListedPaths :
       \A i \in DOMAIN status.list :
         scores[path].score <= status.list[i].score

\* C9: for every non-empty needle and every max_results >= 0, 0 included,
\* a poll completes and publishes a list of at most max_results results
\* that holds the highest-scoring candidates: the poll never unwinds
\* before it publishes, and what it publishes leaves out no candidate
\* scoring higher than the lowest score kept.
C9_PollPublishesTopResults ==
  /\ pc # "panicked"
  /\ status.ready => TopResultsKept

\* What holds of the code: every published list keeps the top results ...
C9_PublishedListKeepsTopResults == status.ready => TopResultsKept

\* ... and a poll unwinds only with max_results = 0 and a live search.
C9_PanicOnlyWithoutRoom ==
  pc = "panicked" => search.max_results = 0 /\ search.needle # <<>>

\* A search with max_results = 0 found a candidate file and its poll
\* unwound, leaving the status Pending under a live observer.
C9_PanicReached ==
  /\ pc = "panicked"
  /\ search.max_results = 0
  /\ observer
  /\ ~status.ready

\* C10: in every Ready list a path search publishes, each result's score
\* is greater than or equal to the score of every result after it.
C10_ReadyListDescending ==
  status.ready =>
    \A i, j \in DOMAIN status.list :
      i < j => status.list[i].score >= status.list[j].score

\* A published list of at least three results whose scores fall strictly
\* somewhere and tie somewhere else.
C10_Witness ==
  /\ status.ready
  /\ Len(status.list) >= 3
  /\ \E i \in DOMAIN status.list :
       i < Len(status.list) /\ status.list[i].score > status.list[i + 1].score
  /\ \E i \in DOMAIN status.list :
       i < Len(status.list) /\ status.list[i].score = status.list[i + 1].score

(***************************************************************************)
(* Cancellation and the status cell.                                       *)
(***************************************************************************)
\* A poll has been entered while nobody observed the status cell.
PolledUnobserved == polls >= 1 /\ ~observed_at_poll

\* The size of tree the cancellation scenario speaks of: 20,000 entries.
LargeTreeEntries == 2 * FindStepsBetweenChecks

\* The search walks one tree whose root directly holds at least as many
\* entries as phase 1 runs steps between two checks.
WideRoot ==
  /\ Len(search.roots) = 1
  /\ ChildrenLen(search.roots[1]) >= FindStepsBetweenChecks

C12_CancelledPollWritesNothing ==
  /\ [][pc' = "cancelled" => status' = status]_vars
  /\ [][(pc \in {"find", "rank"} /\ status' # status) => pc' = "done"]_vars
  /\ [](pc = "cancelled" /\ polls = 1 => status = Pending)

C12_Witness ==
  /\ pc = "cancelled"
  /\ polls = 1
  /\ observed_at_poll
  /\ ~has_observers
  /\ status = Pending

\* C13: the status cell starts as Pending and stays so until a poll, is
\* written only by the search (by the step of a poll that completes it,
\* never by the consumer), and is one-way: once it holds a Ready value
\* it never holds Pending again, also when the search is polled again
\* after completion.
C13_StatusOneWay ==
  /\ [](polls = 0 => status = Pending)
  /\ [][status.ready => status'.ready]_vars
  /\ [][status' # status =>
         /\ pc' = "done"
         /\ \/ pc = "rank"
            \/ polls' = polls + 1 /\ search.needle = <<>>]_vars

C13_Witness ==
  /\ polls = 2
  /\ pc = "done"
  /\ ~observed_at_poll
  /\ search.needle # <<>>
  /\ status.ready
  /\ status.list # <<>>

(***************************************************************************)
(* Termination of a poll.  poll is a synchronous function: once entered,   *)
(* its loops keep stepping until it returns or unwinds.                    *)
(***************************************************************************)
PollStep ==
  \/ FindCancelled
  \/ FindIgnored
  \/ FindIsMatch
  \/ FindDescend
  \/ FindNoMatch
  \/ FindAscend
  \/ FindDone
  \/ RankCancelled
  \/ RankSkipIgnored
  \/ RankDescend
  \/ RankSkipDir
  \/ RankSkipFile
  \/ \E score \in Scores : RankScoreFile(score)
  \/ RankPanic
  \/ RankAscend
  \/ RankDone

SpecSearchFair == SpecSearch /\ WF_vars(PollStep)

LivePoll == polls = 1 /\ observed_at_poll /\ has_observers

\* C14: a single poll with a live observer runs phase 1 and then phase 2
\* to completion and returns done, having written the status cell exactly
\* once, from Pending to Ready: while the poll runs the status is Pending,
\* the poll neither fails nor unwinds, and when it has returned the status
\* is Ready.
C14_LivePollCompletes ==
  LivePoll =>
    /\ pc \in {"find", "rank", "done"}
    /\ pc \in {"find", "rank"} => status = Pending
    /\ pc = "done" => status.ready

\* The same with room for at least one result.
C14_LivePollCompletesWithRoom ==
  (LivePoll /\ search.max_results >= 1) =>
    /\ pc \in {"find", "rank", "done"}
    /\ pc \in {"find", "rank"} => status = Pending
    /\ pc = "done" => status.ready

\* Every poll returns or unwinds: the walks are finite.
C14_PollTerminates ==
  [](pc \in {"find", "rank"} => <>(pc \in {"done", "cancelled", "panicked"}))

C14_LivePollPanics ==
  /\ LivePoll
  /\ search.max_results = 0
  /\ pc = "panicked"
  /\ status = Pending

\* C15: a poll of a search with an empty needle and a live observer
\* publishes Ready with an empty list and reports done in one step,
\* without walking any tree (no stack, no match marker, no result, no
\* scored path), whatever the trees, max_results and include_ignored;
\* a search with an empty needle is never inside either phase.
C15_EmptyNeedleReadyEmpty ==
  /\ [][(polls' = polls + 1 /\ search.needle = <<>> /\ has_observers) =>
         /\ pc' = "done"
         /\ status' = Ready(<<>>)
         /\ UNCHANGED <<stack, walk, matches, results, matcher, scorer,
                        scores>>]_vars
  /\ []((pc # "none" /\ search.needle = <<>>) =>
         /\ pc \in {"created", "done"}
         /\ walk = NoWalk
         /\ matches = <<>>
         /\ scores = <<>>
         /\ status \in {Pending, Ready(<<>>)})

C15_Witness ==
  /\ project \in LargeProjects
  /\ search.needle = <<>>
  /\ polls = 1
  /\ observed_at_poll
  /\ pc = "done"
  /\ status = Ready(<<>>)

(***************************************************************************)
(* The files of the project's trees, read off the trees themselves rather  *)
(* than off the walk: where a file lies, and what a result naming it has   *)
(* to say.                                                                 *)
(***************************************************************************)
SmallProjects == Projects \ LargeProjects

ParentOf(p, a) ==
  CHOOSE d \in DOMAIN SmallTrees[p] :
    \E i \in DOMAIN SmallTrees[p][d].children :
      SmallTrees[p][d].children[i] = a

\* The entries from the root of its tree down to the entry itself.
RECURSIVE PathTo(_, _)
PathTo(p, a) ==
  IF \E i \in DOMAIN TreeRoots(p) : TreeRoots(p)[i] = a THEN <<a>>
  ELSE Append(PathTo(p, ParentOf(p, a)), a)

\* The entries shown in a display path: the root is left out when the
\* project has a single tree.
ShownPathTo(p, a) ==
  IF Len(TreeRoots(p)) > 1 THEN PathTo(p, a) ELSE Tail(PathTo(p, a))

\* Of every entry of every small project: the length of its path from the
\* root, the repo id of its tree, the names from just below the root of
\* the tree to the entry, the name characters (a directory's name followed
\* by a slash) of the entries shown, whether the entry or one of its
\* ancestors is ignored, and the directories above the entry.
TreeTable ==
  [p \in SmallProjects |->
     [a \in DOMAIN SmallTrees[p] |->
        LET path == PathTo(p, a)
            shown == ShownPathTo(p, a)
        IN [depth |-> Len(path),
            ancestors |-> {path[i] : i \in 1 .. Len(path) - 1},
            repo_id |-> (CHOOSE i \in DOMAIN TreeRoots(p) :
                           TreeRoots(p)[i] = path[1]) - 1,
            relative_path |->
              [i \in 1 .. Len(path) - 1 |-> SmallTrees[p][path[i + 1]].name],
            display_path |->
              Flatten([i \in 1 .. Len(shown) |->
                         IF SmallTrees[p][shown[i]].dir
                         THEN SmallTrees[p][shown[i]].name \o <<"/">>
                         ELSE SmallTrees[p][shown[i]].name]),
            under_ignored |->
              \E i \in DOMAIN path : SmallTrees[p][path[i]].ignored]]]

TreeEntries ==
  IF project \in LargeProjects THEN {} ELSE DOMAIN SmallTrees[project]

DepthOf(a) == TreeTable[project][a].depth

RepoIdOf(a) == TreeTable[project][a].repo_id

RelativePathOf(a) == TreeTable[project][a].relative_path

DisplayPathOf(a) == TreeTable[project][a].display_path

UnderIgnored(a) == TreeTable[project][a].under_ignored

\* The files a result names by its repo id and relative path.
FilesOf(result) ==
  {a \in TreeEntries :
     /\ ~entry(a).dir
     /\ RepoIdOf(a) = result.repo_id
     /\ RelativePathOf(a) = result.relative_path}

\* C16: with include_ignored = false every published result names a file
\* of the trees that is not ignored and has no ignored ancestor directory
\* (the large trees, whose files match no needle, publish nothing).
C16_NoIgnoredResult ==
  (status.ready /\ ~search.include_ignored) =>
    \A i \in DOMAIN status.list :
      /\ FilesOf(status.list[i]) # {}
      /\ \A a \in FilesOf(status.list[i]) : ~UnderIgnored(a)

\* A search that had room left for the two ignored candidates of "one".
C16_Witness ==
  /\ project = "one"
  /\ ~search.include_ignored
  /\ search.needle = <<"a", "b">>
  /\ search.max_results = MaxResults
  /\ status.ready
  /\ Len(status.list) = 2

\* The files a result shows by its paths.
FilesShown(result) ==
  {a \in TreeEntries :
     /\ ~entry(a).dir
     /\ RelativePathOf(a) = result.relative_path
     /\ DisplayPathOf(a) = result.display_path}

\* C17: every published result's repo_id is the id of the tree in which
\* the file it shows lies, at every depth of the file and in whatever
\* order the trees were snapshotted.
C17_RepoIdOfContainingTree ==
  status.ready =>
    \A i \in DOMAIN status.list :
      /\ FilesShown(status.list[i]) # {}
      /\ \A a \in FilesShown(status.list[i]) :
           status.list[i].repo_id = RepoIdOf(a)

\* Two trees snapshotted second tree first, and a result two levels
\* below the root of the tree with repo id 1.
C17_Witness ==
  /\ project = "two"
  /\ search.repo_ids = <<1, 0>>
  /\ status.ready
  /\ \E i \in DOMAIN status.list :
       /\ status.list[i].relative_path = << <<"b">>, <<"a">> >>
       /\ status.list[i].repo_id = 1
  /\ \E i \in DOMAIN status.list :
       /\ status.list[i].relative_path = << <<"a">> >>
       /\ status.list[i].repo_id = 0

\* C18: every published result carries the paths of one file of the
\* trees: relative_path is the names from just below the root of the
\* file's tree down to the file, never the root's own name, and
\* display_path is the name characters along the walk, starting with the
\* root's exactly when the search has more than one root.
C18_PathsOfResult ==
  status.ready =>
    \A i \in DOMAIN status.list :
      \E a \in TreeEntries :
        /\ ~entry(a).dir
        /\ status.list[i].repo_id = RepoIdOf(a)
        /\ status.list[i].relative_path = RelativePathOf(a)
        /\ status.list[i].display_path = DisplayPathOf(a)
        /\ Len(status.list[i].relative_path) = DepthOf(a) - 1
        /\ status.list[i].display_path \in DOMAIN scores

C18_Witness ==
  /\ project = "two"
  /\ Len(search.roots) = 2
  /\ status.ready
  /\ \E i \in DOMAIN status.list :
       /\ status.list[i].relative_path = << <<"b">>, <<"a">> >>
       /\ status.list[i].display_path = <<"q", "/", "b", "/", "a">>

\* The same with a single root: the root's name is not shown.
C18_WitnessSingleRoot ==
  /\ project = "one"
  /\ status.ready
  /\ \E i \in DOMAIN status.list :
       /\ status.list[i].relative_path = << <<"a">>, <<"b">> >>
       /\ status.list[i].display_path = <<"a", "/", "b">>

\* The positions of a result are as many as the needle has characters,
\* strictly ascending, each the index in display_path of the needle's
\* character.
PositionsMatch(result) ==
  /\ Len(result.positions) = Len(search.needle)
  /\ \A k \in DOMAIN result.positions :
       /\ result.positions[k] \in 0 .. Len(result.display_path) - 1
       /\ result.display_path[result.positions[k] + 1] = search.needle[k]
  /\ \A k, l \in DOMAIN result.positions :
       k < l => result.positions[k] < result.positions[l]

\* C19: for every published result r, r.positions has exactly |needle|
\* entries, strictly ascending, each a character index inside
\* r.display_path at which the corresponding needle character matched.
C19_PositionsAreMatchIndices ==
  status.ready => \A i \in DOMAIN status.list : PositionsMatch(status.list[i])

\* No two entries of the project's trees share an identity.
DistinctIds ==
  \A a, b \in TreeEntries : entry(a).id = entry(b).id => a = b

\* The same for trees no two entries of which share an identity.
C19_PositionsWithDistinctIds ==
  (status.ready /\ DistinctIds) =>
    \A i \in DOMAIN status.list : PositionsMatch(status.list[i])

\* positions.resize(needle.len(), 0): the length is the needle's always.
C19_PositionsLength ==
  status.ready =>
    \A i \in DOMAIN status.list :
      Len(status.list[i].positions) = Len(search.needle)

\* A published result whose display path does not hold the needle.
C19_UnmatchedPathPublished ==
  /\ project = "twins"
  /\ search.needle = <<"b">>
  /\ status.ready
  /\ \E i \in DOMAIN status.list :
       /\ status.list[i].display_path = <<"p", "/", "a">>
       /\ ~IsSubsequence(search.needle, status.list[i].display_path)

(***************************************************************************)
(* Replication.  A remote project holds one remote tree per repo id of     *)
(* the local project it mirrors, in a HashMap of its own; its search_paths *)
(* is the local one over that map.  The search of the local project has    *)
(* completed and published when the remote one is started with the same    *)
(* needle, max_results and include_ignored; the scorer reports for a path  *)
(* what it reported for it in the local search.                            *)
(***************************************************************************)
RemoteSearchPaths(order) ==
  /\ pc = "done"
  /\ status.ready
  /\ ~local_search.mirrored
  /\ local_search' = [mirrored |-> TRUE, repo_ids |-> search.repo_ids,
                      status |-> status]
  /\ search' = [search EXCEPT
                  !.repo_ids = order,
                  !.roots = [i \in DOMAIN order |->
                               TreeRoots(project)[order[i] + 1]]]
  /\ stack' = <<>>
  /\ status' = Pending
  /\ observer' = TRUE
  /\ pc' = "created"
  /\ polls' = 0
  /\ observed_at_poll' = FALSE
  /\ UNCHANGED <<project, walk, matches, results, matcher, scorer, scores>>
  /\ UNCHANGED <<projectVars, serviceVars, registerVars>>

ReplicationNext ==
  \/ SearchNext
  \/ \E o \in SnapshotOrders(project) : RemoteSearchPaths(o)

SpecReplication == SearchInit /\ [][ReplicationNext]_vars

\* A Ready list as a set of (repo id, relative path, display path,
\* positions).
ResultSet(a_status) ==
  {[repo_id |-> a_status.list[i].repo_id,
    relative_path |-> a_status.list[i].relative_path,
    display_path |-> a_status.list[i].display_path,
    positions |-> a_status.list[i].positions] : i \in DOMAIN a_status.list}

BothPublished == local_search.mirrored /\ status.ready

\* C20: for the same trees, needle, max_results and include_ignored the
\* Ready list of the remote project's search equals, as a set of (repo id,
\* relative path, display path, positions), the Ready list of the search
\* of the local project it mirrors.
C20_RemoteEqualsLocal ==
  BothPublished =>
    ResultSet(status) = ResultSet(local_search.status)

\* The same when the remote project's map yields the trees in the order
\* in which the local project's map did: the lists are equal as lists.
C20_RemoteEqualsLocalInSameOrder ==
  (BothPublished /\ search.repo_ids = local_search.repo_ids) =>
    status = local_search.status

\* The same when the local list did not fill max_results.
C20_RemoteEqualsLocalWithRoom ==
  (BothPublished /\ Len(local_search.status.list) < search.max_results) =>
    ResultSet(status) = ResultSet(local_search.status)

\* Two trees, one result wanted, two files scored alike: each search keeps
\* the file of the tree its map yielded first.
C20_RemoteDiffers ==
  /\ project = "two"
  /\ BothPublished
  /\ search.needle = <<"a">>
  /\ search.max_results = 1
  /\ local_search.repo_ids = <<0, 1>>
  /\ search.repo_ids = <<1, 0>>
  /\ ResultSet(local_search.status)
       # ResultSet(status)
  /\ Len(status.list) = 1
  /\ Len(local_search.status.list) = 1

(***************************************************************************)
(* Properties of the project service and the remote project (checked       *)
(* under SpecService).                                                     *)
(***************************************************************************)
\* A step in which the future serving the request of slot t resolves.
FutureResolves(t) ==
  /\ calls[t].pc = "pending"
  /\ tasks[t].pc \in {"request", "open", "read"}
  /\ tasks'[t].pc \in {"ok", "idle"}
  /\ outcome'.error.kind # "RpcError"

LocalErrorKinds == {"TreeNotFound", "BufferNotFound", "IoError"}

\* C21: whenever the future serving an OpenPath or OpenBuffer request
\* resolves, a response is in flight in the same step: OpenedBuffer(Ok(id))
\* with the id of a buffer sub-service registered in that step for the
\* buffer the local project returned when the open succeeded, and
\* OpenedBuffer(Err(error)) with the local project's error, no sub-service
\* registered, when it failed; no other step of a request registers a
\* sub-service.
C21_RequestAlwaysResponds ==
  /\ [][\A t \in TaskIds :
          FutureResolves(t) =>
            /\ calls'[t].pc = "responded"
            /\ IF outcome'.error = NoError
               THEN /\ calls'[t].ok
                    /\ tasks'[t].pc = "ok"
                    /\ Len(services') = Len(services) + 1
                    /\ calls'[t].service_id = Len(services')
                    /\ services'[Len(services')] =
                         [kind |-> "buffer", of |-> tasks'[t].obj]
               ELSE /\ ~calls'[t].ok
                    /\ calls'[t].error = outcome'.error
                    /\ calls'[t].error.kind \in LocalErrorKinds
                    /\ services' = services]_vars
  /\ [][(services # <<>> /\ services' # services) =>
          \E t \in TaskIds : FutureResolves(t) /\ outcome'.error = NoError]_vars

\* A failed read is answered with its IoError while the buffer service of
\* an earlier request stays registered.
C21_Witness ==
  \E t, u \in TaskIds :
    /\ calls[t].pc = "responded"
    /\ ~calls[t].ok
    /\ calls[t].error.kind = "IoError"
    /\ outcome.at = "read"
    /\ calls[u].pc = "taken"
    /\ services[calls[u].service_id].kind = "buffer"

\* A step in which the service handles the request of slot t.
RequestHandled(t) ==
  /\ tasks[t].pc = "request"
  /\ tasks'[t].pc # "request"
  /\ outcome'.error.kind # "RpcError"

\* A step in which the call of slot t on the remote project resolves.
RemoteCallResolves(t) ==
  \/ calls[t].pc = "responded" /\ calls'[t].pc # "responded"
  \/ calls[t].pc = "pending" /\ calls'[t].pc = "none"

LiveBufferIds ==
  {heap[o].id : o \in {d \in 1 .. Len(heap) : heap[d].strong > 0}}

\* C22: on a remote project open_path with a repo id the local project
\* does not know is answered TreeNotFound, open_buffer with an id that has
\* no live buffer BufferNotFound, and the call fails with exactly the
\* error of the response; a failure of the transport or of taking the
\* buffer service fails the call with RpcError; a remote buffer is built
\* only by a call that resolves without error, on the service of its
\* response.
C22_RemoteErrors ==
  /\ [][\A t \in TaskIds :
          /\ (RequestHandled(t) /\ calls[t].call = "remote_open_path"
                /\ tasks[t].repo \notin repos)
             => /\ calls'[t].pc = "responded"
                /\ ~calls'[t].ok
                /\ calls'[t].error = TreeNotFound
          /\ (RequestHandled(t) /\ calls[t].call = "remote_open_buffer"
                /\ calls[t].buffer_id \notin LiveBufferIds)
             => /\ calls'[t].pc = "responded"
                /\ ~calls'[t].ok
                /\ calls'[t].error = BufferNotFound
          /\ RemoteCallResolves(t)
             => /\ outcome'.call = calls[t].call
                /\ \/ outcome'.error.kind = "RpcError"
                   \/ /\ calls[t].pc = "responded"
                      /\ outcome'.error = calls[t].error
                /\ IF outcome'.error = NoError
                   THEN /\ calls[t].ok
                        /\ remote_buffers' =
                             remote_buffers \cup {calls[t].service_id}
                   ELSE remote_buffers' = remote_buffers]_vars
  /\ [][remote_buffers \subseteq remote_buffers' =>
          \/ remote_buffers' = remote_buffers
          \/ \E t \in TaskIds :
               RemoteCallResolves(t) /\ outcome'.error = NoError]_vars

\* The call failed with the TreeNotFound of the local project while a
\* buffer service that could not be taken is still registered.
C22_Witness ==
  /\ outcome.call = "remote_open_path"
  /\ outcome.at = "response"
  /\ outcome.error = TreeNotFound
  /\ \E u \in TaskIds : calls[u].pc = "untaken"
  /\ remote_buffers = {}

\* The slots whose request was answered with a buffer service: the service
\* holds the buffer it was registered on.
Published ==
  {t \in TaskIds : /\ calls[t].pc \in {"responded", "taken", "untaken"}
                   /\ calls[t].ok
                   /\ calls[t].call = "remote_open_path"}

SamePath(t, u) ==
  /\ tasks[u].repo = tasks[t].repo
  /\ tasks[u].path = tasks[t].path

\* C23: an OpenPath request goes through the registry of the local
\* project. While the buffer published for a request is held, every handle
\* an open_path for the same repo id and path gave, local or for another
\* request, is the object the buffer service stands on (one BufferId, one
\* content), and an open_path for them that resolves meanwhile returns
\* that object and allocates no BufferId.
C23_RequestSharesRegistry ==
  /\ [](\A t \in Published :
          /\ tasks[t].pc = "ok"
          /\ services[calls[t].service_id] =
               [kind |-> "buffer", of |-> tasks[t].obj]
          /\ \A u \in Handles :
               (tasks[u].path # "" /\ SamePath(t, u))
                 => /\ tasks[u].obj = tasks[t].obj
                    /\ heap[tasks[u].obj].id = heap[tasks[t].obj].id
                    /\ heap[tasks[u].obj].content = heap[tasks[t].obj].content)
  /\ [][\A t \in Published, u \in TaskIds :
          (/\ u # t
           /\ tasks[u].pc \in {"open", "read"}
           /\ tasks'[u].pc = "ok"
           /\ SamePath(t, u))
            => /\ tasks'[u].obj = tasks[t].obj
               /\ heap'[tasks'[u].obj].id = heap[tasks[t].obj].id
               /\ heap'[tasks'[u].obj].content = heap[tasks[t].obj].content
               /\ next_buffer_id' = next_buffer_id
               /\ Len(heap') = Len(heap)]_vars

\* The remote project has taken the buffer of its request, and a local
\* open_path of the same file holds the same buffer, edited since.
C23_Witness ==
  \E t \in Published, u \in Handles :
    /\ calls[t].pc = "taken"
    /\ calls[u].pc = "none"
    /\ SamePath(t, u)
    /\ outcome.call = "open_path"
    /\ outcome.arg = u
    /\ tasks[u].obj = tasks[t].obj
    /\ heap[tasks[t].obj].content = EditedContent

RepoServices == {i \in DOMAIN services : services[i].kind = "repo"}

\* C24: once the service is initialised its state maps exactly the repo
\* ids of the project, each to the id of a repository sub-service of its
\* own that stands on that tree, and no other repository sub-service is
\* registered; the remote project built from the state holds a tree for
\* exactly these repo ids, on the same sub-services.
C24_OneServicePerTree ==
  /\ rpc_state # <<>> =>
       /\ DOMAIN rpc_state = repos
       /\ \A r \in repos :
            /\ rpc_state[r] \in DOMAIN services
            /\ services[rpc_state[r]] = [kind |-> "repo", of |-> r]
       /\ \A r, q \in repos : rpc_state[r] = rpc_state[q] => r = q
       /\ RepoServices = {rpc_state[r] : r \in repos}
       /\ Cardinality(RepoServices) = Cardinality(repos)
  /\ rpc_state = <<>> => services = <<>> /\ remote_repos = <<>>
  /\ remote_repos # <<>> =>
       /\ DOMAIN remote_repos = repos
       /\ \A r \in repos : remote_repos[r] = rpc_state[r]

\* Two trees whose sub-services were registered in the order opposite to
\* the repo ids, and the remote project built from that state.
C24_Witness ==
  /\ Cardinality(repos) = 2
  /\ DOMAIN remote_repos = repos
  /\ remote_repos[0] = 2
  /\ remote_repos[1] = 1
  /\ services[1] = [kind |-> "repo", of |-> 1]

(***************************************************************************)
(* Further properties of the LocalProject (checked under Spec).            *)
(***************************************************************************)
\* The calls suspended at the read of the file: each of them passed the
\* first registry check.
ReadersOf(file_id) ==
  {t \in TaskIds : tasks[t].pc = "read" /\ tasks[t].file = file_id}

\* C25: of several open_path calls that wait for the read of one file, the
\* one whose read completes while no buffer of the file is live creates
\* the buffer, with one new BufferId and one new registry entry; a read
\* that completes while the buffer is held finds it at the re-check and
\* returns it: the content read is discarded, no BufferId is allocated, no
\* buffer and no registry entry is added.
C25_RacingReadsInstallOnce ==
  [][\A t \in TaskIds :
       ReadSucceeds(t) =>
         LET live == LiveBuffersOf(tasks[t].file)
         IN IF live = {}
            THEN /\ outcome' = Resolved("open_path", "created", t)
                 /\ next_buffer_id' = next_buffer_id + 1
                 /\ Len(heap') = Len(heap) + 1
                 /\ LiveBuffersOf(tasks[t].file)' = {Len(heap')}
                 /\ buffers' = Append(retain_live(buffers),
                                      [id |-> next_buffer_id,
                                       obj |-> Len(heap')])
                 /\ ReadersOf(tasks[t].file)' = ReadersOf(tasks[t].file) \ {t}
            ELSE /\ outcome' = Resolved("open_path", "recheck", t)
                 /\ tasks'[t].obj \in live
                 /\ next_buffer_id' = next_buffer_id
                 /\ Len(heap') = Len(heap)
                 /\ LiveBuffersOf(tasks[t].file)' = live
                 /\ buffers' = retain_live(buffers)
                 /\ \A o \in live :
                      /\ heap'[o].id = heap[o].id
                      /\ heap'[o].content = heap[o].content]_vars

\* Two calls waited for the read together; the buffer the first created was
\* edited and the file rewritten before the second read completed: the
\* second call holds the one buffer, with the edit.
C25_Witness ==
  \E t, u \in Handles :
    /\ t # u
    /\ outcome = Resolved("open_path", "recheck", u)
    /\ tasks[t].obj = tasks[u].obj
    /\ heap[tasks[u].obj].content = EditedContent
    /\ disk[tasks[u].file] # EditedContent
    /\ next_buffer_id = 1
    /\ Len(buffers) = 1

\* The registry entries whose buffer still has a strong reference, in the
\* order of the registry.
LiveEntries == SelectSeq(buffers, LAMBDA e : heap[e.obj].strong > 0)

LiveBuffersWithId(buffer_id) ==
  {o \in Objects : heap[o].strong > 0 /\ heap[o].id = buffer_id}

\* C26: the registry holds weak references only. A lookup by file identity
\* (the two checks of open_path) or by buffer id (open_buffer) returns a
\* buffer exactly when one with that key still has a strong reference
\* outside the registry, and that buffer; after the lookup the registry
\* holds exactly the entries of the buffers still live, in their order of
\* insertion (followed by the entry of a buffer the call created); no
\* other step changes the registry, and the registry keeps no buffer alive.
C26_WeakRegistryPruned ==
  /\ [][\A t \in TaskIds :
          /\ FileOpened(t) =>
               LET live == LiveBuffersOf(FileIdOf(<<tasks[t].repo,
                                                    tasks[t].path>>))
               IN /\ buffers' = LiveEntries
                  /\ (tasks'[t].pc = "ok") <=> (live # {})
                  /\ tasks'[t].pc = "ok" => tasks'[t].obj \in live
          /\ FileRead(t) =>
               LET live == LiveBuffersOf(tasks[t].file)
               IN /\ SubSeq(buffers', 1, Len(LiveEntries)) = LiveEntries
                  /\ (outcome'.at = "recheck") <=> (live # {})
                  /\ live # {} => /\ tasks'[t].obj \in live
                                  /\ buffers' = LiveEntries
                  /\ live = {} => Len(buffers') = Len(LiveEntries) + 1
          /\ \A b \in 0 .. next_buffer_id :
               OpenBuffer(t, b) =>
                 /\ buffers' = LiveEntries
                 /\ (outcome'.error = NoError) <=> (LiveBuffersWithId(b) # {})
                 /\ outcome'.error = NoError =>
                      tasks'[t].obj \in LiveBuffersWithId(b)
                 /\ outcome'.error # NoError =>
                      outcome'.error = BufferNotFound]_vars
  /\ [][buffers' # buffers =>
          \E t \in TaskIds :
            \/ FileOpened(t)
            \/ FileRead(t)
            \/ \E b \in 0 .. next_buffer_id : OpenBuffer(t, b)]_vars
  /\ [](\A o \in Objects :
          heap[o].strong = Cardinality({t \in Handles : tasks[t].obj = o}))

\* open_buffer was asked for the id of the buffer created first, which is
\* released: it failed, the entry of that buffer is gone from the registry
\* and the entry of the buffer still held is left.
C26_Witness ==
  /\ outcome = Failed("open_buffer", "lookup", 0, BufferNotFound)
  /\ Len(heap) = 2
  /\ heap[1].strong = 0
  /\ heap[2].strong > 0
  /\ buffers = <<[id |-> 1, obj |-> 2]>>

(***************************************************************************)
(* Further properties of the path search (checked under SpecSearch).       *)
(***************************************************************************)
AncestorsOf(a) == TreeTable[project][a].ancestors

\* The entries phase 1 is to mark IsMatch: not ignored and below no ignored
\* directory, the needle matched by the names from the top level of the
\* walk down to the entry, and by those of no directory above it.
MatchedEntries ==
  {a \in TreeEntries :
     /\ ~UnderIgnored(a)
     /\ DisplayPathOf(a) # <<>>
     /\ IsSubsequence(search.needle, DisplayPathOf(a))
     /\ \A d \in AncestorsOf(a) :
          DisplayPathOf(d) = <<>>
            \/ ~IsSubsequence(search.needle, DisplayPathOf(d))}

\* The published results name ignored files only below a directory that
\* phase 1 is to mark IsMatch.
IgnoredOnlyBelowMatch ==
  \A i \in DOMAIN status.list :
    \A a \in FilesOf(status.list[i]) :
      UnderIgnored(a) =>
        \E d \in AncestorsOf(a) : d \in MatchedEntries /\ entry(d).dir

\* C27: with include_ignored = true a published result names an ignored
\* file, or a file below an ignored directory, only if a directory above
\* it that is not ignored matched the needle by itself in phase 1; a file
\* whose own name, or whose ignored directory's name, is needed to
\* complete the match is not published.
C27_IgnoredOnlyBelowMatch ==
  (status.ready /\ search.include_ignored) => IgnoredOnlyBelowMatch

\* The same for trees no two entries of which share an identity.
C27_IgnoredWithDistinctIds ==
  (status.ready /\ search.include_ignored /\ DistinctIds)
    => IgnoredOnlyBelowMatch

\* The ignored file a/z of "one" is published below the directory a, which
\* matches the needle, and the file ab below the ignored directory x, which
\* matches by its own name only, is not.
C27_IgnoredBelowMatchPublished ==
  /\ project = "one"
  /\ search.include_ignored
  /\ search.needle = <<"a">>
  /\ status.ready
  /\ \E i \in DOMAIN status.list :
       status.list[i].relative_path = << <<"a">>, <<"z">> >>
  /\ \A i \in DOMAIN status.list :
       status.list[i].relative_path # << <<"x">>, <<"a", "b">> >>
  /\ Len(status.list) = MaxResults

\* The ignored file p/a of "shadow" is published for the needle a, which
\* only its own name completes: no directory above it matches.
C27_IgnoredFilePublished ==
  /\ project = "shadow"
  /\ search.include_ignored
  /\ search.needle = <<"a">>
  /\ status.ready
  /\ \E i \in DOMAIN status.list :
       /\ status.list[i].repo_id = 0
       /\ status.list[i].relative_path = << <<"a">> >>

\* The directories phase 1 is to mark ContainsMatch: entries of the walk
\* that are not ignored, are not to be marked IsMatch themselves and have
\* an entry to be marked IsMatch below them.
ContainingEntries ==
  {d \in TreeEntries :
     /\ DisplayPathOf(d) # <<>>
     /\ \E a \in MatchedEntries : d \in AncestorsOf(a)}

\* The marker the map holds for the identity of an entry.
Marked(a, marker) ==
  /\ entry(a).id \in DOMAIN matches
  /\ matches[entry(a).id] = marker

MarkerMapOfPhase1 ==
  /\ \A a \in TreeEntries :
       /\ Marked(a, "IsMatch") <=> a \in MatchedEntries
       /\ Marked(a, "ContainsMatch") <=> a \in ContainingEntries
       /\ UnderIgnored(a) => entry(a).id \notin DOMAIN matches
  /\ \A id \in DOMAIN matches :
       \E a \in TreeEntries : entry(a).id = id

\* C28: when phase 1 has completed, an entry is marked IsMatch exactly when
\* it is reached by the walk, is not ignored, and the needle is matched by
\* its name on top of the names above it (nothing below such an entry is
\* reached); a directory is marked ContainsMatch exactly when the walk
\* descended into it and an entry below it is marked IsMatch; no ignored
\* entry is marked.
C28_MarkerMap ==
  (pc = "rank" /\ project \in SmallProjects) => MarkerMapOfPhase1

\* The same for trees no two entries of which share an identity, with the
\* walk: it descends into no entry that is to be marked IsMatch.
C28_MarkerMapWithDistinctIds ==
  /\ [](pc = "rank" /\ project \in SmallProjects /\ DistinctIds
          => MarkerMapOfPhase1)
  /\ [][(pc = "find" /\ Len(stack') > Len(stack) /\ DistinctIds)
          => /\ Current \notin MatchedEntries
             /\ ~entry(Current).ignored]_vars

\* In "one" the needle b leaves a/b and ab marked IsMatch, the directory a
\* ContainsMatch, and nothing else.
C28_MarkersOfOne ==
  /\ project = "one"
  /\ pc = "rank"
  /\ search.needle = <<"b">>
  /\ matches = (3 :> "IsMatch") @@ (5 :> "IsMatch") @@ (2 :> "ContainsMatch")

\* In "twins" the needle b leaves the identity of the file p/a marked
\* IsMatch, which the matcher has not reported a match for.
C28_UnmatchedEntryMarked ==
  /\ project = "twins"
  /\ pc = "rank"
  /\ search.needle = <<"b">>
  /\ Marked(2, "IsMatch")
  /\ 2 \notin MatchedEntries

\* steps_between_checks of the phase the poll is in.
StepsBetweenChecks ==
  IF pc = "find" THEN FindStepsBetweenChecks ELSE RankStepsBetweenChecks

InPhase == pc \in {"find", "rank"}

\* The iteration at hand is the one on which the counter reaches the
\* threshold.
AtThreshold == walk.steps_since_last_check + 1 = StepsBetweenChecks

\* The observer is examined at the threshold only: the counter is 0 when a
\* phase starts, an iteration adds one to it or, at the threshold with an
\* observer, resets it; the poll is cancelled exactly on an iteration at
\* the threshold that finds no observer. In a poll entered after the
\* observer was dropped the counter is the number of iterations the phase
\* has run, and stays below the threshold.
CounterAndCheck ==
  /\ [][(pc' # pc /\ pc' \in {"find", "rank"})
          => walk'.steps_since_last_check = 0]_vars
  /\ [][(InPhase /\ pc' = pc /\ walk' # walk)
          => walk'.steps_since_last_check =
               IF AtThreshold THEN 0 ELSE walk.steps_since_last_check + 1]_vars
  /\ [][(InPhase /\ pc' # pc)
          => (pc' = "cancelled") <=> (AtThreshold /\ ~observer)]_vars
  /\ [][(InPhase /\ AtThreshold /\ ~observer /\ walk' # walk)
          => pc' = "cancelled"]_vars
  /\ [](PolledUnobserved /\ InPhase
          => walk.steps_since_last_check < StepsBetweenChecks)
  /\ [][(PolledUnobserved /\ InPhase /\ pc' = pc /\ walk' # walk)
          => walk'.steps_since_last_check =
               walk.steps_since_last_check + 1]_vars

\* C29: the observer is examined only on the iteration on which the
\* counter of the phase reaches 10,000 (phase 1) or 1,000 (phase 2); the
\* counter is 0 when a phase starts and is reset by a check that finds an
\* observer. A poll entered after the observer was dropped is cancelled
\* exactly when phase 1 comes to its 10,000th iteration or phase 2 to its
\* 1,000th; otherwise it runs to the end and reports done.
C29_UnobservedPollCancelledAtThreshold ==
  /\ CounterAndCheck
  /\ [][(PolledUnobserved /\ pc = "find" /\ pc' # pc /\ ~AtThreshold)
          => pc' = "rank"]_vars
  /\ [][(PolledUnobserved /\ pc = "rank" /\ pc' # pc /\ ~AtThreshold)
          => pc' = "done"]_vars

\* The same, the poll ending in done or in the panic of max_results = 0.
C29_CancelledAtThresholdOrPanics ==
  /\ CounterAndCheck
  /\ [][(PolledUnobserved /\ pc = "find" /\ pc' # pc /\ ~AtThreshold)
          => pc' = "rank"]_vars
  /\ [][(PolledUnobserved /\ pc = "rank" /\ pc' # pc /\ ~AtThreshold)
          => \/ pc' = "done"
             \/ pc' = "panicked" /\ search.max_results = 0]_vars

\* The poll of "mid", entered after the observer was dropped, went through
\* phase 1 and was cancelled in phase 2.
C29_CancelledInPhase2 ==
  /\ project = "mid"
  /\ EntryCount < FindStepsBetweenChecks
  /\ PolledUnobserved
  /\ polls = 1
  /\ pc = "cancelled"

\* A poll entered after the observer was dropped has neither been
\* cancelled nor reported done: it panicked.
C29_UnobservedPollPanics ==
  /\ PolledUnobserved
  /\ polls = 1
  /\ pc = "panicked"
  /\ project = "one"

\* The files whose display path holds the needle as a fuzzy match.
MatchingFiles ==
  {a \in TreeEntries :
     ~entry(a).dir /\ IsSubsequence(search.needle, DisplayPathOf(a))}

NoIgnoredEntries == \A a \in TreeEntries : ~entry(a).ignored

\* The search the claim speaks of has published its results.
PublishedWithRoom ==
  /\ status.ready
  /\ project \in SmallProjects
  /\ NoIgnoredEntries
  /\ search.needle # <<>>
  /\ Cardinality(MatchingFiles) <= search.max_results

\* Every matching file is published once and nothing else is.
ExactlyMatchingFiles ==
  /\ \A i \in DOMAIN status.list :
       \E a \in MatchingFiles :
         /\ status.list[i].repo_id = RepoIdOf(a)
         /\ status.list[i].relative_path = RelativePathOf(a)
         /\ status.list[i].display_path = DisplayPathOf(a)
  /\ \A a \in MatchingFiles :
       Cardinality({i \in DOMAIN status.list :
                      /\ status.list[i].repo_id = RepoIdOf(a)
                      /\ status.list[i].relative_path = RelativePathOf(a)}) = 1
  /\ Len(status.list) = Cardinality(MatchingFiles)

\* C30: for trees without ignored entries and a non-empty needle, when no
\* more files match than max_results allows, the published results are
\* exactly the files whose display path holds the needle as a fuzzy match,
\* each once, and no directory and no file whose path does not match; with
\* one root and with several, whether or not entries of different trees
\* carry the same identity.
C30_PublishedAreTheMatchingFiles ==
  PublishedWithRoom => ExactlyMatchingFiles

\* The same for trees no two entries of which share an identity.
C30_MatchingFilesWithDistinctIds ==
  (PublishedWithRoom /\ DistinctIds) => ExactlyMatchingFiles

\* Both trees of "two" are searched for a, with room for all: the files
\* p/a and q/b/a are published and q/c is not.
C30_MatchingFilesOfTwo ==
  /\ project = "two"
  /\ PublishedWithRoom
  /\ search.needle = <<"a">>
  /\ Cardinality(MatchingFiles) = 2
  /\ Len(status.list) = 2

\* "twins" is searched for b with room for two results: q/b/a is the one
\* matching file, and p/a is published beside it.
C30_NonMatchingFilePublished ==
  /\ project = "twins"
  /\ PublishedWithRoom
  /\ search.needle = <<"b">>
  /\ search.max_results = 2
  /\ Cardinality(MatchingFiles) = 1
  /\ Len(status.list) = 2
  /\ \E i \in DOMAIN status.list :
       status.list[i].display_path = <<"p", "/", "a">>

(***************************************************************************)
(* Register (repository.rs): a BTreeSet of entries ordered by lamport      *)
(* timestamp, then replica id.  Operations are issued one by one and every *)
(* copy of the register is handed each of them once, in its own order.     *)
(***************************************************************************)
\* The calls set(id, lamport_timestamp, value): the id is an OperationId
\* (epoch_id, replica_id, timestamp).
SetCalls ==
  [id : [epoch_id : {0}, replica_id : 1 .. MaxReplicas,
         timestamp : 1 .. MaxLocalTimestamp],
   lamport_timestamp : 1 .. MaxLamportTimestamp,
   value : {"x", "y"}]

\* Option::None of value()
NoValue == "None"

\* Ord for RegisterEntry: the lamport timestamps, then the replica ids.
RegisterEntry_cmp(a, b) ==
  IF Compare(a.lamport_timestamp, b.lamport_timestamp) = "Equal"
  THEN Compare(a.id.replica_id, b.id.replica_id)
  ELSE Compare(a.lamport_timestamp, b.lamport_timestamp)

\* Register::set: BTreeSet::insert of the entry. The set looks the entry
\* up by cmp: when an entry that compares Equal is present the set is left
\* as it is, otherwise the entry goes to its place in the order.
Register_set(register, id, lamport_timestamp, value) ==
  LET new == [id |-> id, lamport_timestamp |-> lamport_timestamp,
              value |-> value]
      less == SelectSeq(register,
                        LAMBDA e : RegisterEntry_cmp(e, new) = "Less")
      greater == SelectSeq(register,
                           LAMBDA e : RegisterEntry_cmp(e, new) = "Greater")
  IN IF Len(less) + Len(greater) < Len(register) THEN register
     ELSE less \o <<new>> \o greater

\* Register::value: the value of the last entry of the set.
Register_value(register) ==
  IF register = <<>> THEN NoValue ELSE register[Len(register)].value

\* A replica issues an operation on the register, under an OperationId no
\* operation has had.
IssueOperation(call) ==
  /\ Cardinality(operations) < MaxOperations
  /\ \A c \in operations : c.id # call.id
  /\ operations' = operations \cup {call}
  /\ UNCHANGED <<register_entries, applied>>
  /\ UNCHANGED <<projectVars, searchVars, serviceVars>>

\* A copy of the register is handed an operation it has not had.
RegisterSet(k, call) ==
  /\ call \in operations \ applied[k]
  /\ register_entries' =
       [register_entries EXCEPT ![k] =
          Register_set(@, call.id, call.lamport_timestamp, call.value)]
  /\ applied' = [applied EXCEPT ![k] = @ \cup {call}]
  /\ UNCHANGED operations
  /\ UNCHANGED <<projectVars, searchVars, serviceVars>>

RegisterNext ==
  \/ \E call \in SetCalls : IssueOperation(call)
  \/ \E k \in Copies, call \in SetCalls : RegisterSet(k, call)

SpecRegister == Init /\ [][RegisterNext]_vars

(***************************************************************************)
(* Properties of the Register (checked under SpecRegister).                *)
(***************************************************************************)
\* The copy has been handed every operation there is, and there is one.
HandedAll(k) == operations # {} /\ applied[k] = operations

\* The calls no other call of the set is ordered after: the greatest
\* lamport timestamp and, among those, the greatest replica id.
LastWriters ==
  {c \in operations :
     \A d \in operations :
       \/ d.lamport_timestamp < c.lamport_timestamp
       \/ /\ d.lamport_timestamp = c.lamport_timestamp
          /\ d.id.replica_id <= c.id.replica_id}

\* The register returns the value of a last writer, and two copies that
\* were handed the same calls return the same value.
ValueIsLastWriters ==
  /\ \A k \in Copies :
       HandedAll(k) =>
         \E c \in LastWriters : Register_value(register_entries[k]) = c.value
  /\ \A k, l \in Copies :
       (HandedAll(k) /\ HandedAll(l)) =>
         Register_value(register_entries[k]) =
           Register_value(register_entries[l])

\* C31: after set calls with pairwise distinct operation ids, handed to the
\* register in any order, value() is the value of the call with the
\* greatest lamport timestamp, ties broken by the greater replica id, and
\* it depends on the set of calls only, not on their order: two copies
\* handed the same calls in different orders return the same value.
C31_LastWriterWins ==
  (\A c, d \in operations : c.id = d.id => c = d) => ValueIsLastWriters

\* No two of the calls carry the same lamport timestamp and replica id.
DistinctWriters ==
  \A c, d \in operations :
    (/\ c.lamport_timestamp = d.lamport_timestamp
     /\ c.id.replica_id = d.id.replica_id) => c = d

\* The same for calls no two of which carry the same lamport timestamp and
\* replica id; the register then keeps an entry for every call.
C31_LastWriterWinsWithDistinctWriters ==
  DistinctWriters =>
    /\ ValueIsLastWriters
    /\ \A k \in Copies :
         {register_entries[k][i] : i \in DOMAIN register_entries[k]}
           = applied[k]

\* Three calls of two replicas, the greatest lamport timestamp carried by
\* both replicas: both copies, handed the calls in different orders (one
\* had the last writer first, the other last), return its value.
C31_TieBrokenByReplica ==
  /\ Cardinality(operations) = 3
  /\ DistinctWriters
  /\ \A k \in Copies : HandedAll(k)
  /\ \E c, d \in operations :
       /\ c # d
       /\ c.lamport_timestamp = d.lamport_timestamp
       /\ c.id.replica_id > d.id.replica_id
       /\ c.value # d.value
       /\ LastWriters = {c}
       /\ Register_value(register_entries[1]) = c.value
       /\ Register_value(register_entries[2]) = c.value

\* Two calls of one replica under distinct operation ids carry the same
\* lamport timestamp: each copy returns the value it was handed first.
C31_OrderDecides ==
  /\ Cardinality(operations) = 2
  /\ \A k \in Copies : HandedAll(k)
  /\ \A c, d \in operations : c.id = d.id => c = d
  /\ Register_value(register_entries[1]) = "x"
  /\ Register_value(register_entries[2]) = "y"
  /\ Len(register_entries[1]) = 1

====
